---- MODULE Spec2Model ----
(***************************************************************************)
(* Model of five subsystems of gitoxide:                                   *)
(*   - git-index  State::from_bytes (src/git-index/src/decode/mod.rs):     *)
(*     sequential and IEOT-driven parallel decoding of an index file;      *)
(*   - git-odb    general::Store load_index                                *)
(*     (src/git-odb/src/store/general/load_index.rs): the slot map, the    *)
(*     refresher consolidate_with_disk_state and the readers               *)
(*     load_one_index / collect_snapshot;                                  *)
(*   - git-tempfile  force_setup and the lazily initialised REGISTER       *)
(*     (src/git-tempfile/src/lib.rs);                                      *)
(*   - git-refspec  Matcher::matches_lhs                                   *)
(*     (src/git-refspec/src/match_group/util.rs);                          *)
(*   - git-repository  discover::existing and Path                         *)
(*     (src/git-repository/src/discover.rs, lib.rs).                       *)
(* SpecDecode, SpecDamaged and SpecIeot are the specifications of the      *)
(* decoder.  The store has Spec and SpecReaders (two callers), SpecRefresh *)
(* and SpecSlots (one caller and a history variable each), SpecOverflow    *)
(* (generations at their maximum) and SpecSnapshot (two callers, counted   *)
(* refreshes, lazily loaded indices).  SpecSetup is the specification of   *)
(* the tempfile set-up, SpecMatch that of the ref-spec matcher and         *)
(* SpecDiscover that of the repository discovery.                          *)
(***************************************************************************)
EXTENDS Integers, Sequences, FiniteSets, TLC

(***************************************************************************)
(* Bounds                                                                  *)
(***************************************************************************)
\* largest number of entries of an index file
MaxEntries == 3
\* largest effective thread count handed to from_bytes
MaxThreads == 3
\* capacity of the slot map (self.files.len()), fixed at construction
NumSlots == 2
\* modification times are 1..MaxMtime
MaxMtime == 2
\* largest generation a run reaches
MaxGeneration == 1
\* number of refreshes after which no call starts, where they are counted
MaxConsolidations == 2
\* number of calls into git-tempfile that a thread makes
MaxCalls == 2
\* largest length of a side of a ref-spec
MaxName == 3
\* largest length of the name of a reference
MaxItem == 4
\* largest number of components of a path
MaxDepth == 2

VARIABLES
    \* ---- index decode (State::from_bytes) ----
    dfile,      \* the index file being decoded (see IndexFiles)
    dthreads,   \* effective thread count: parallel::num_threads(thread_limit)
    dminext,    \* min_extension_block_in_bytes_for_threading
    dpc,        \* position of the calling thread in from_bytes
    workers,    \* `threads`: one record per spawned entry worker
    finished,   \* chunk ids in the order in which their workers finished
    extw,       \* the extension worker: "none", "running" or "done"
    iter,       \* the InOrderIter over the joined worker results
    acc,        \* the accumulator of the merge fold
    entries_res,\* result of the entry decoding of the parallel arm
    ext_res,    \* result of extension::decode::all
    dresult     \* what from_bytes returns

dvars == <<dfile, dthreads, dminext, dpc, workers, finished, extw, iter, acc,
           entries_res, ext_res, dresult>>

VARIABLES
    \* ---- object store (general::Store) ----
    index,      \* self.index: the published SlotMapIndex
    files,      \* self.files: the slots (bundle and generation tag)
    lock,       \* self.path: the objects_directory mutex (0: free, else holder)
    num_handles_stable,  \* self.num_handles_stable
    debug_assertions,    \* whether the build evaluates debug_assert!
    thr,        \* per thread: position and locals of the call it executes
    superseded, \* history: the generations of the SlotMapIndex values replaced
    refs,       \* history: (slot, index path, generation) for every slot index
                \* listed in a published SlotMapIndex while holding that path
    last,       \* history: the directory that the latest refresh scanned, whether
                \* that refresh reached its end, whether it followed a finished
                \* refresh of the same directory, and whether it stored a new
                \* SlotMapIndex
    published,  \* history: (generation, slot, index path, mtime) for every slot
                \* listed by a SlotMapIndex at the moment it was stored
    num_disk_state_consolidation
                \* self.num_disk_state_consolidation; NotCounted in the
                \* specifications that leave it out (nothing reads it)

svars == <<index, files, lock, num_handles_stable, debug_assertions, thr,
           superseded, refs, last, published, num_disk_state_consolidation>>

VARIABLES
    \* ---- tempfile set-up (git-tempfile) ----
    SIGNAL_HANDLER_MODE, \* the static AtomicUsize of that name
    NEXT_MAP_INDEX,      \* the static AtomicUsize of that name
    REGISTER,            \* the static Lazy: its state and, once initialised,
                         \* the keys of the DashMap
    handlers,            \* per termination signal, how many times a handler
                         \* of this crate was registered for it
    tthr,                \* per thread: position and locals of its call
    first_setup          \* history: the mode of the first force_setup call
                         \* that returned

tvars == <<SIGNAL_HANDLER_MODE, NEXT_MAP_INDEX, REGISTER, handlers, tthr,
           first_setup>>

VARIABLES
    \* ---- ref-spec matching (git-refspec match_group) ----
    matcher,    \* the Matcher: lhs and rhs, each an optional Needle
    mpc,        \* "idle" (no Matcher yet), "ready" or "done"
    mitem,      \* the full_ref_name of the Item handed to matches_lhs
    mfound,     \* what lhs.matches(item) returned
    moutcome    \* what matches_lhs returned

gvars == <<matcher, mpc, mitem, mfound, moutcome>>

VARIABLES
    \* ---- repository discovery (git-repository) ----
    fs,         \* the file system: per path, what the directory there holds
    GIT_OBJECT_DIRECTORY, \* the environment variable of that name
    directory,  \* the argument of discover::existing
    cursor,     \* the local of that name
    xpc,        \* position of the caller in discover::existing
    accepted,   \* history: the directory that is_git accepted and its kind
    xresult     \* what discover::existing returned

pvars == <<fs, GIT_OBJECT_DIRECTORY, directory, cursor, xpc, accepted, xresult>>

vars == <<dvars, svars, tvars, gvars, pvars>>

(***************************************************************************)
(* Sequence helpers                                                        *)
(***************************************************************************)
RECURSIVE SeqSum(_)
SeqSum(s) == IF s = <<>> THEN 0 ELSE Head(s) + SeqSum(Tail(s))

RECURSIVE Flatten(_)
Flatten(ss) == IF ss = <<>> THEN <<>> ELSE Head(ss) \o Flatten(Tail(ss))

Min(a, b) == IF a <= b THEN a ELSE b

NoValue == [none |-> TRUE]

\* the value of a counter that a specification leaves out
NotCounted == -1

(***************************************************************************)
(* The index file.  A file is modelled at the granularity of its records:  *)
(* `disk` is the sequence of on-disk entries, a data offset is the number  *)
(* of the entry that starts there (1 is post_header_data, Len(disk)+1 the  *)
(* first extension).  An on-disk entry holds what the entry chunk decoder  *)
(* reads: the v4 strip length, the NUL-terminated path (suffix) and        *)
(* whether its mode is that of a sparse directory.                         *)
(***************************************************************************)
\* length of the trailing checksum (object_hash.len_in_bytes(), Sha1)
HashLen == 20

\* the paths of the entries, in index order (sorted)
PathSet == << <<1>>, <<1, 1>>, <<1, 2>>, <<2>> >>

Versions == {2, 4}

RECURSIVE CommonPrefixLen(_, _)
CommonPrefixLen(a, b) ==
    IF a = <<>> \/ b = <<>> \/ Head(a) # Head(b) THEN 0
    ELSE 1 + CommonPrefixLen(Tail(a), Tail(b))

\* The on-disk form of entry i of `paths`, written for `version`; blockStart
\* tells that i starts an IEOT block (the writer then shares nothing with the
\* previous path).
EncodeEntry(paths, i, version, blockStart, sparse) ==
    LET p == paths[i]
        prev == IF i = 1 THEN <<>> ELSE paths[i - 1]
        common == IF blockStart THEN 0 ELSE CommonPrefixLen(prev, p)
    IN IF version = 4
       THEN [strip |-> Len(prev) - common,
             suffix |-> SubSeq(p, common + 1, Len(p)),
             sparse |-> sparse, bad |-> FALSE]
       ELSE [strip |-> 0, suffix |-> p, sparse |-> sparse, bad |-> FALSE]

\* block sizes -> IEOT descriptors (from_beginning_of_file, num_entries)
RECURSIVE Descriptors(_, _)
Descriptors(sizes, from) ==
    IF sizes = <<>> THEN <<>>
    ELSE <<[from_beginning_of_file |-> from, num_entries |-> Head(sizes)]>>
         \o Descriptors(Tail(sizes), from + Head(sizes))

BlockStarts(ieot) == {ieot[k].from_beginning_of_file : k \in 1..Len(ieot)}

\* all ways to cut n >= 1 entries into consecutive non-empty blocks
RECURSIVE Compositions(_)
Compositions(n) ==
    IF n = 0 THEN {<<>>}
    ELSE UNION {{<<k>> \o c : c \in Compositions(n - k)} : k \in 1..n}

\* strictly increasing index sequences into PathSet with at most MaxEntries
PathChoices ==
    {s \in UNION {[1..n -> 1..Len(PathSet)] : n \in 0..Min(MaxEntries, Len(PathSet))} :
        \A i \in 1..(Len(s) - 1) : s[i] < s[i + 1]}

MakeFile(choice, version, sizes, hasIeot, hasEoie, sparseAt, sdir, extSize) ==
    LET paths == [i \in 1..Len(choice) |-> PathSet[choice[i]]]
        ieot == IF hasIeot THEN Descriptors(sizes, 1) ELSE <<>>
    IN [version |-> version,
        num_entries |-> Len(paths),
        disk |-> [i \in 1..Len(paths) |->
                     EncodeEntry(paths, i, version, i \in BlockStarts(ieot),
                                 i = sparseAt)],
        paths |-> paths,
        eoie |-> hasEoie,
        ieot |-> ieot,
        ext |-> [sdir |-> sdir, size |-> extSize, ieot |-> hasIeot,
                 bad |-> FALSE, untr |-> FALSE],
        header_ok |-> TRUE,
        trailer |-> HashLen]

\* the lengths of what a damaged file has left after its extensions
TrailerLengths == {HashLen - 1, HashLen, HashLen + 1}

\* The file f, damaged: the on-disk entry corruptAt has a malformed field (0:
\* none has), the extension block holds an unknown mandatory extension, trailer
\* bytes are left after the extensions, the header is not that of an index.
Damaged(f, corruptAt, extBad, trailer, headerOk) ==
    [f EXCEPT !.disk = [i \in 1..Len(f.disk) |->
                           [f.disk[i] EXCEPT !.bad = (i = corruptAt)]],
              !.ext.bad = extBad,
              !.trailer = trailer,
              !.header_ok = headerOk]

(***************************************************************************)
(* Decoders that from_bytes calls (header, EOIE probe, IEOT lookup, entry  *)
(* chunk decoder, extension registry).                                     *)
(***************************************************************************)
\* header::decode: whether it yields version and num_entries
header_decode(f) == f.header_ok

\* extension::end_of_index_entry::decode: the offset of the first extension
\* when a verifying EOIE record is present
start_of_extensions(f) ==
    IF f.eoie THEN [some |-> TRUE, offset |-> Len(f.disk) + 1] ELSE [some |-> FALSE]

\* extension::index_entry_offset_table::find
index_offsets_table(f) ==
    IF f.ext.ieot /\ f.ieot # <<>> THEN [some |-> TRUE, offsets |-> f.ieot]
    ELSE [some |-> FALSE]

\* extension::untracked::decode (extension/mod.rs lines 49-51) is
\* todo!("decode UNTR"): a call does not return, the thread panics
untracked_decode == [ok |-> FALSE, err |-> "panic"]

\* extension::decode::all: the payloads, the sparse marker and the bytes left;
\* an UNTR record is handed to untracked::decode
extension_decode_all(f) ==
    IF f.ext.bad THEN [ok |-> FALSE, err |-> "Extension"]
    ELSE IF f.ext.untr THEN untracked_decode
    ELSE [ok |-> TRUE,
          ext |-> [payload |-> f.ext.size, is_sparse |-> f.ext.sdir],
          data |-> f.trailer]

\* entries::load_one: decode one on-disk entry, appending its path to the
\* backing buffer.  prev is the range of the previous path of this chunk.
load_one(rec, version, prev, backing) ==
    LET hasPrev == version = 4 /\ prev.some
        end == IF hasPrev THEN prev.range.end - rec.strip ELSE 0
        copyLen == IF hasPrev THEN end - prev.range.start ELSE 0
        copied == IF hasPrev /\ copyLen > 0
                  THEN SubSeq(backing, prev.range.start + 1, end) ELSE <<>>
        backing2 == backing \o copied \o rec.suffix
    IN IF rec.bad \/ (hasPrev /\ (end < 0 \/ copyLen < 0))
       THEN [ok |-> FALSE]
       ELSE [ok |-> TRUE,
             backing |-> backing2,
             range |-> [start |-> Len(backing), end |-> Len(backing2)]]

\* entries::load_chunk: decode n entries from offset pos into entries/backing
RECURSIVE load_chunk_from(_, _, _, _, _, _, _, _)
load_chunk_from(f, pos, idx, n, prev, entries, backing, sparse) ==
    IF idx = n
    THEN [ok |-> TRUE, entries |-> entries, path_backing |-> backing,
          is_sparse |-> sparse, data |-> pos]
    ELSE IF pos > Len(f.disk)
    THEN [ok |-> FALSE, err |-> "Entry"]
    ELSE LET one == load_one(f.disk[pos], f.version, prev, backing)
         IN IF ~one.ok
            THEN [ok |-> FALSE, err |-> "Entry"]
            ELSE load_chunk_from(f, pos + 1, idx + 1, n,
                     [some |-> TRUE, range |-> one.range],
                     Append(entries, [ord |-> pos, path |-> one.range]),
                     one.backing,
                     sparse \/ f.disk[pos].sparse)

load_chunk(f, pos, entries, backing, n) ==
    load_chunk_from(f, pos, 0, n, [some |-> FALSE], entries, backing, FALSE)

(***************************************************************************)
(* State::from_bytes                                                       *)
(***************************************************************************)
\* load_entries: all entries from post_header_data into fresh buffers
load_entries(f) ==
    LET r == load_chunk(f, 1, <<>>, <<>>, f.num_entries)
    IN IF r.ok
       THEN [ok |-> TRUE,
             outcome |-> [entries |-> r.entries, path_backing |-> r.path_backing,
                          is_sparse |-> r.is_sparse],
             data |-> r.data]
       ELSE r

\* `num_threads -= 1` sits in the block that builds the argument of
\* bool::then, so it runs whether or not the extension worker is spawned
entry_threads(num_threads) == num_threads - 1

\* the quotient rounded down (at least 1) instead of up
chunk_size_floor(len, num_threads) ==
    IF len < num_threads THEN 1 ELSE len \div num_threads

\* (entry_offsets.len() as f32 / num_threads as f32).ceil()
chunk_size(len, num_threads) == (len + num_threads - 1) \div num_threads

\* entry_offsets.chunks(chunk_size)
RECURSIVE chunks(_, _)
chunks(offsets, size) ==
    IF offsets = <<>> THEN <<>>
    ELSE IF Len(offsets) <= size THEN <<offsets>>
    ELSE <<SubSeq(offsets, 1, size)>>
         \o chunks(SubSeq(offsets, size + 1, Len(offsets)), size)

\* a worker that returns what it decoded before a chunk failed
RECURSIVE worker_body_keeps_decoded(_, _, _, _, _, _)
worker_body_keeps_decoded(f, id, descs, entries, backing, sparse) ==
    IF descs = <<>>
    THEN [ok |-> TRUE, id |-> id,
          outcome |-> [entries |-> entries, path_backing |-> backing,
                       is_sparse |-> sparse]]
    ELSE LET r == load_chunk(f, Head(descs).from_beginning_of_file, entries,
                             backing, Head(descs).num_entries)
         IN IF ~r.ok
            THEN [ok |-> TRUE, id |-> id,
                  outcome |-> [entries |-> entries, path_backing |-> backing,
                               is_sparse |-> sparse]]
            ELSE worker_body_keeps_decoded(f, id, Tail(descs), r.entries,
                                           r.path_backing, sparse \/ r.is_sparse)

\* the body of one entry worker: its descriptors, one load_chunk each, into
\* the worker's private entries and path_backing
RECURSIVE worker_body(_, _, _, _, _, _)
worker_body(f, id, descs, entries, backing, sparse) ==
    IF descs = <<>>
    THEN [ok |-> TRUE, id |-> id,
          outcome |-> [entries |-> entries, path_backing |-> backing,
                       is_sparse |-> sparse]]
    ELSE LET r == load_chunk(f, Head(descs).from_beginning_of_file, entries,
                             backing, Head(descs).num_entries)
         IN IF ~r.ok THEN [ok |-> FALSE, err |-> r.err]
            ELSE worker_body(f, id, Tail(descs), r.entries, r.path_backing,
                             sparse \/ r.is_sparse)

\* shift_entry with the adjustment of the range forgotten
shift_entry_unadjusted(e, ofs) == e

\* e.path.start += ofs; e.path.end += ofs
shift_entry(e, ofs) ==
    [e EXCEPT !.path = [start |-> e.path.start + ofs, end |-> e.path.end + ofs]]

\* merge_outcome with the entries of rhs put in front of those of lhs
merge_outcome_prepend(lhs, rhs) ==
    LET ofs == Len(lhs.path_backing)
    IN [is_sparse |-> lhs.is_sparse \/ rhs.is_sparse,
        path_backing |-> lhs.path_backing \o rhs.path_backing,
        entries |-> [i \in 1..Len(rhs.entries) |-> shift_entry(rhs.entries[i], ofs)]
                    \o lhs.entries]

\* merge_outcome with ofs read after path_backing was extended
merge_outcome_ofs_after_extend(lhs, rhs) ==
    LET ofs == Len(lhs.path_backing) + Len(rhs.path_backing)
    IN [is_sparse |-> lhs.is_sparse \/ rhs.is_sparse,
        path_backing |-> lhs.path_backing \o rhs.path_backing,
        entries |-> lhs.entries
                    \o [i \in 1..Len(rhs.entries) |-> shift_entry(rhs.entries[i], ofs)]]

\* one turn of the merge loop on Ok(rhs)
merge_outcome(lhs, rhs) ==
    LET ofs == Len(lhs.path_backing)
    IN [is_sparse |-> lhs.is_sparse \/ rhs.is_sparse,
        path_backing |-> lhs.path_backing \o rhs.path_backing,
        entries |-> lhs.entries
                    \o [i \in 1..Len(rhs.entries) |-> shift_entry(rhs.entries[i], ofs)]]

\* InOrderIter::next on one item of the inner iterator: `yield` is what next()
\* returns, or none when the item was stored and the inner iterator is asked
\* again
in_order_next(it, item) ==
    IF ~item.ok
    THEN [iter |-> [it EXCEPT !.is_done = TRUE, !.store = {}],
          yield |-> [some |-> TRUE, res |-> [ok |-> FALSE, err |-> item.err]]]
    ELSE IF item.id = it.sequence
    THEN [iter |-> [it EXCEPT !.sequence = it.sequence + 1],
          yield |-> [some |-> TRUE, res |-> [ok |-> TRUE, outcome |-> item.outcome]]]
    ELSE LET store == it.store \cup {item}
             hit == {x \in store : x.id = it.sequence}
         IN IF hit # {}
            THEN LET x == CHOOSE x \in hit : TRUE
                 IN [iter |-> [it EXCEPT !.sequence = it.sequence + 1,
                                         !.store = store \ {x}],
                     yield |-> [some |-> TRUE,
                                res |-> [ok |-> TRUE, outcome |-> x.outcome]]]
            ELSE [iter |-> [it EXCEPT !.store = store], yield |-> [some |-> FALSE]]

\* InOrderIter::next once the inner iterator is exhausted
in_order_end(it) ==
    LET hit == {x \in it.store : x.id = it.sequence}
    IN IF hit # {}
       THEN LET x == CHOOSE x \in hit : TRUE
            IN [iter |-> [it EXCEPT !.sequence = it.sequence + 1,
                                    !.store = it.store \ {x}],
                yield |-> [some |-> TRUE, res |-> [ok |-> TRUE, outcome |-> x.outcome]]]
       ELSE [iter |-> it, yield |-> [some |-> FALSE]]

\* the thread whose result results.next() waits for: threads are joined in
\* the order in which they were spawned
next_joined(it) == it.pos

\* finish that rejects only a trailer that is too short
finish_short_trailer(f, entries, ext, data) ==
    IF data < HashLen
    THEN [ok |-> FALSE, err |-> "UnexpectedTrailerLength",
          expected |-> HashLen, actual |-> data]
    ELSE [ok |-> TRUE,
          version |-> f.version,
          entries |-> entries.entries,
          path_backing |-> entries.path_backing,
          is_sparse |-> entries.is_sparse \/ ext.is_sparse,
          ext |-> ext.payload,
          checksum |-> data]

\* lines 190-227: the trailer check and the returned State
finish(f, entries, ext, data) ==
    IF data # HashLen
    THEN [ok |-> FALSE, err |-> "UnexpectedTrailerLength",
          expected |-> HashLen, actual |-> data]
    ELSE [ok |-> TRUE,
          version |-> f.version,
          entries |-> entries.entries,
          path_backing |-> entries.path_backing,
          is_sparse |-> entries.is_sparse \/ ext.is_sparse,
          ext |-> ext.payload,
          checksum |-> data]

\* lines 177-187: the sequential arm, as one function of the file
from_bytes_sequential(f) ==
    LET e == load_entries(f)
        x == extension_decode_all(f)
    IN IF ~e.ok THEN [ok |-> FALSE, err |-> e.err]
       ELSE IF ~x.ok THEN [ok |-> FALSE, err |-> x.err]
       ELSE finish(f, e.outcome, x.ext, x.data)

(***************************************************************************)
(* The object store: slots, SlotMapIndex, the objects directory            *)
(***************************************************************************)
\* the files that can appear in <objects>/pack
IndexPaths == {"a.idx", "b.idx", "multi-pack-index"}

\* the order in which read_dir yields them
DirOrder == <<"a.idx", "b.idx", "multi-pack-index">>

is_multipack_index(path) == path = "multi-pack-index"

Slots == 0..(NumSlots - 1)

Callers == {1, 2}

\* Generation::MAX.  The type is declared outside this file; the largest
\* integer of the model checker stands for its largest value.
GenerationMax == 2147483647

\* current_generation + 1 in a build that does not check the overflow
wrapping_next(generation) ==
    IF generation = GenerationMax THEN 0 ELSE generation + 1

\* IndexAndPacks::new_by_index_path: a bundle that is neither loaded nor
\* disposable
new_by_index_path(index_path, mtime) ==
    [index_path |-> index_path, mtime |-> mtime, disposable |-> FALSE,
     loaded |-> FALSE]

\* IndexAndPacks::index_is_loaded
index_is_loaded(bundle) == bundle.loaded

\* IndexAndPacks::put_back
put_back(bundle) == [bundle EXCEPT !.disposable = FALSE]

\* IndexAndPacks::trash, the transition into the disposable state
trash(bundle) == [bundle EXCEPT !.disposable = TRUE]

\* SlotMapIndex::is_initialized: at least one loose object db is known
is_initialized(ix) == ix.loose_dbs # <<>>

\* SlotMapIndex::marker.  state_id is the identity of the SlotMapIndex; the
\* only use of a state_id is its comparison with that of the published
\* SlotMapIndex, so every copy of one carries `current`: whether it is the
\* identity of the SlotMapIndex that is published now.
marker_of(ix) == [generation |-> ix.generation, current |-> ix.current]

\* lines 127-133: the objects directory followed by its alternates; none is
\* configured
db_paths == <<"objects">>

\* lines 134-144
loose_dbs_for(ix) ==
    IF ~is_initialized(ix)
       \/ Len(db_paths) # Len(ix.loose_dbs)
       \/ \E i \in 1..Min(Len(db_paths), Len(ix.loose_dbs)) :
             db_paths[i] # ix.loose_dbs[i]
    THEN db_paths
    ELSE ix.loose_dbs

\* lines 147-166: the (path, mtime) of the index files of pack/
RECURSIVE read_dir(_, _)
read_dir(dir, k) ==
    IF k > Len(DirOrder) THEN <<>>
    ELSE (IF dir[DirOrder[k]] > 0
          THEN <<[path |-> DirOrder[k], mtime |-> dir[DirOrder[k]]]>>
          ELSE <<>>)
         \o read_dir(dir, k + 1)

\* line 170: sort_by(|l, r| l.1.cmp(&r.1).reverse()), a stable sort
RECURSIVE insert_newest_first(_, _)
insert_newest_first(sorted, x) ==
    IF sorted = <<>> THEN <<x>>
    ELSE IF Head(sorted).mtime >= x.mtime
    THEN <<Head(sorted)>> \o insert_newest_first(Tail(sorted), x)
    ELSE <<x>> \o sorted

RECURSIVE sort_newest_first(_)
sort_newest_first(l) ==
    IF l = <<>> THEN <<>>
    ELSE insert_newest_first(sort_newest_first(SubSeq(l, 1, Len(l) - 1)), l[Len(l)])

\* a scan that reports a.idx also when there is no such file
indices_with_missing_file(dir) ==
    sort_newest_first(read_dir([dir EXCEPT !["a.idx"] = 1], 1))

indices_by_modification_time(dir) == sort_newest_first(read_dir(dir, 1))

\* lines 171-178: index path -> slot index, for the slots the index lists that
\* hold a bundle (a later slot index replaces an earlier one of the same path)
idx_by_index_path(ix, fl) ==
    LET held == {i \in 1..Len(ix.slot_indices) : fl[ix.slot_indices[i]].files # NoValue}
        paths == {fl[ix.slot_indices[i]].files.index_path : i \in held}
    IN [p \in paths |->
          LET is == {i \in held : fl[ix.slot_indices[i]].files.index_path = p}
          IN ix.slot_indices[CHOOSE i \in is : \A j \in is : j <= i]]

RECURSIVE SeqMax(_)
SeqMax(sq) ==
    IF Len(sq) = 1 THEN sq[1]
    ELSE LET m == SeqMax(Tail(sq)) IN IF sq[1] >= m THEN sq[1] ELSE m

\* lines 227-232
next_possibly_free_index(ix) ==
    IF ix.slot_indices = <<>> THEN 0
    ELSE (SeqMax(ix.slot_indices) + 1) % NumSlots

\* lines 481-483
maintain_stable_indices(handles) == handles = 0

\* lines 406-418: the bundle is replaced, the generation tag is not written
set_slot_to_index(slot, index_path, mtime, current_generation) ==
    [slot EXCEPT !.files = new_by_index_path(index_path, mtime)]

\* lines 421-474; `panic` tells that an assertion of the function failed, and
\* `line` which one; `loaded` is the returned bool
assure_slot_matches_index(slot, index_path, mtime, current_generation, may_init) ==
    IF slot.files # NoValue
    THEN IF slot.files.index_path # index_path
         THEN [panic |-> TRUE, line |-> 431, slot |-> slot]
         ELSE IF slot.files.disposable
         THEN [panic |-> FALSE, loaded |-> index_is_loaded(slot.files),
               slot |-> [files |-> put_back(slot.files),
                         generation |-> current_generation]]
         ELSE [panic |-> FALSE, loaded |-> index_is_loaded(slot.files),
               slot |-> slot]
    ELSE IF may_init
    THEN [panic |-> FALSE, loaded |-> FALSE,
          slot |-> [files |-> new_by_index_path(index_path, mtime),
                    generation |-> current_generation]]
    ELSE [panic |-> TRUE, line |-> 470, slot |-> slot]

\* lines 333-379.  ret: "empty" is Some(true), "collected" Some(false),
\* "none" None, "panic" a failed assertion or an overflow of
\* current_generation + 1 in a build that checks it
try_set_single_index_slot(slot, index_path, mtime, current_generation, needs_stable_indices, debug) ==
    IF slot.files # NoValue
    THEN IF debug /\ is_multipack_index(index_path)
         THEN [ret |-> "panic", line |-> 343, slot |-> slot]
         ELSE IF slot.files.index_path = index_path
         THEN [ret |-> "panic", line |-> 347, slot |-> slot]
         ELSE IF ~needs_stable_indices /\ slot.files.disposable
         THEN IF debug /\ current_generation = GenerationMax
              THEN [ret |-> "panic", line |-> 358, slot |-> slot]
              ELSE [ret |-> "collected",
                    slot |-> set_slot_to_index(slot, index_path, mtime,
                                 wrapping_next(current_generation))]
         ELSE [ret |-> "none", slot |-> slot]
    ELSE LET a == assure_slot_matches_index(slot, index_path, mtime,
                                            current_generation, TRUE)
         IN IF a.panic THEN [ret |-> "panic", line |-> a.line, slot |-> a.slot]
            ELSE [ret |-> "empty", slot |-> a.slot]

\* lines 383-404: only the case of meeting oneself is written, the rest is
\* todo!()
try_copy_multi_pack_index(dest_slot, index_path) ==
    IF dest_slot.files # NoValue /\ dest_slot.files.index_path = index_path
    THEN [ret |-> "none", slot |-> dest_slot]
    ELSE [ret |-> "panic", slot |-> dest_slot,
          line |-> IF dest_slot.files # NoValue THEN 400 ELSE 402]

\* lines 186-224: the discovered files against the slots the index lists.
\* c holds the locals: files, map (idx_by_index_path), new
\* (new_slot_map_indices), add (index_paths_to_add), num_loaded_indices,
\* status and, for the status "panic", the line of the assertion or todo!()
\* that panicked
RECURSIVE reconcile(_, _, _)
reconcile(found, ix, c) ==
    IF found = <<>> \/ c.status # "ok" THEN c
    ELSE LET f == Head(found) IN
         IF f.path \in DOMAIN c.map
         THEN LET slot_idx == c.map[f.path]
                  slot == c.files[slot_idx]
                  rest == [p \in (DOMAIN c.map) \ {f.path} |-> c.map[p]]
              IN IF is_multipack_index(f.path) /\ slot.files.mtime # f.mtime
                 THEN reconcile(Tail(found), ix,
                        [c EXCEPT !.map = rest,
                                  !.add = Append(c.add,
                                     [path |-> f.path, mtime |-> f.mtime,
                                      move_from |-> slot_idx]),
                                  !.num_loaded_indices =
                                      IF index_is_loaded(slot.files)
                                      THEN @ + 1 ELSE @])
                 ELSE LET a == assure_slot_matches_index(slot, f.path, f.mtime,
                                                         ix.generation, FALSE)
                      IN reconcile(Tail(found), ix,
                           [c EXCEPT !.map = rest,
                                     !.files[slot_idx] = a.slot,
                                     !.new = Append(c.new, slot_idx),
                                     !.num_loaded_indices =
                                         IF ~a.panic /\ a.loaded
                                         THEN @ + 1 ELSE @,
                                     !.status = IF a.panic THEN "panic" ELSE "ok",
                                     !.line = IF a.panic THEN a.line ELSE 0])
         ELSE reconcile(Tail(found), ix,
                [c EXCEPT !.add = Append(c.add,
                     [path |-> f.path, mtime |-> f.mtime, move_from |-> -1])])

\* lines 236-289: every queued path gets the next acceptable slot; each slot is
\* looked at once (num_indices_checked).  More locals in c: next
\* (next_possibly_free_index), checked, needs_generation_change
RECURSIVE place(_, _, _, _)
place(ix, c, needs_stable_indices, debug) ==
    IF c.add = <<>> \/ c.status # "ok" THEN c
    ELSE IF c.checked = NumSlots
    THEN [c EXCEPT !.status = "InsufficientSlots",
                   !.needed = Len(c.add)]
    ELSE LET a == Head(c.add)
             slot_index == c.next
             step == [c EXCEPT !.next = (c.next + 1) % NumSlots,
                               !.checked = c.checked + 1]
             r == IF a.move_from >= 0
                  THEN try_copy_multi_pack_index(c.files[slot_index], a.path)
                  ELSE try_set_single_index_slot(c.files[slot_index], a.path,
                           a.mtime, ix.generation, needs_stable_indices, debug)
         IN IF r.ret = "panic"
            THEN [step EXCEPT !.status = "panic", !.line = r.line]
            ELSE IF r.ret = "none"
            THEN place(ix, step, needs_stable_indices, debug)
            ELSE place(ix,
                       [step EXCEPT !.files[slot_index] = r.slot,
                                    !.new = Append(c.new, slot_index),
                                    !.add = Tail(c.add),
                                    !.needs_generation_change =
                                        c.needs_generation_change \/ r.ret = "collected"],
                       needs_stable_indices, debug)

\* a generation that skips one value
checked_generation_skip(ix, needs_generation_change) ==
    [ok |-> TRUE,
     generation |-> IF needs_generation_change THEN ix.generation + 2
                    ELSE ix.generation]

\* lines 296-300
checked_generation(ix, needs_generation_change) ==
    IF ~needs_generation_change THEN [ok |-> TRUE, generation |-> ix.generation]
    ELSE IF ix.generation = GenerationMax THEN [ok |-> FALSE]
    ELSE [ok |-> TRUE, generation |-> ix.generation + 1]

\* lines 127-300 of consolidate_with_disk_state, from the scan of the
\* directory to the computed generation
consolidate(ix, fl, dir, handles, debug) ==
    LET c0 == [files |-> fl, map |-> idx_by_index_path(ix, fl), new |-> <<>>,
               add |-> <<>>, status |-> "ok", next |-> next_possibly_free_index(ix),
               checked |-> 0, needs_generation_change |-> FALSE, needed |-> 0,
               line |-> 0, num_loaded_indices |-> 0]
        c1 == reconcile(indices_by_modification_time(dir), ix, c0)
        c2 == place(ix, c1, maintain_stable_indices(handles), debug)
        g == checked_generation(ix, c2.needs_generation_change)
    IN [files |-> c2.files,
        status |-> IF c2.status # "ok" THEN c2.status
                   ELSE IF ~g.ok THEN "GenerationOverflow" ELSE "ok",
        needed |-> c2.needed,
        line |-> c2.line,
        num_loaded_indices |-> c2.num_loaded_indices,
        slot_indices |-> c2.new,
        loose_dbs |-> loose_dbs_for(ix),
        generation |-> IF g.ok THEN g.generation ELSE ix.generation]

\* the errors of the file system that end a refresh: Alternate from
\* alternate::resolve (line 130), Io from read_dir (line 152) or from
\* modified() (line 164); "none": the directory was read
ScanErrors == {"Io", "Alternate"}

ScanOutcomes == {"none"} \cup ScanErrors

\* a refresh that reports the error of the file system after it went through
\* the files it found
consolidate_then_fail(ix, fl, dir, err, handles, debug) ==
    LET r == consolidate(ix, fl, dir, handles, debug)
    IN IF err = "none" THEN r
       ELSE [r EXCEPT !.status = err, !.needed = 0, !.line = 0]

\* lines 127-300 with the early returns of lines 130, 152 and 164: they come
\* before anything is written
consolidate_or_fail(ix, fl, dir, err, handles, debug) ==
    IF err # "none"
    THEN [files |-> fl, status |-> err, needed |-> 0, line |-> 0,
          num_loaded_indices |-> 0, slot_indices |-> <<>>,
          loose_dbs |-> ix.loose_dbs, generation |-> ix.generation]
    ELSE consolidate(ix, fl, dir, handles, debug)

\* line 301
index_unchanged(ix, new_slot_map_indices) == ix.slot_indices = new_slot_map_indices

\* line 308
must_publish(ix, pend) ==
    ~index_unchanged(ix, pend.slot_indices) \/ pend.loose_dbs # ix.loose_dbs

\* lines 309-321: the SlotMapIndex that replaces ix
new_index(ix, pend) ==
    [current |-> TRUE,
     generation |-> pend.generation,
     slot_indices |-> pend.slot_indices,
     loose_dbs |-> pend.loose_dbs,
     next_index_to_load |-> IF index_unchanged(ix, pend.slot_indices)
                            THEN ix.next_index_to_load ELSE 0,
     loaded_indices |-> IF index_unchanged(ix, pend.slot_indices)
                        THEN ix.loaded_indices ELSE pend.num_loaded_indices]

\* OnDiskFile::loaded of the index of a bundle: nothing in this file loads an
\* index (line 92 is a TODO), a bundle stays as new_by_index_path made it
\* until a handle loads its index
loaded(bundle) == bundle.loaded

\* lines 493-503: the IndexLookup of slot id, which holds a loaded bundle; the
\* index file is told by its path and modification time
IndexLookup(id, fl) ==
    [id |-> id, index_path |-> fl[id].files.index_path,
     mtime |-> fl[id].files.mtime]

\* lines 485-515: the listed slots whose index is loaded, the loose dbs and the
\* marker of the SlotMapIndex ix that line 486 loaded
collect_snapshot(ix, fl) ==
    LET lookup(id) == fl[id].files # NoValue /\ loaded(fl[id].files)
        ids == IF is_initialized(ix) THEN SelectSeq(ix.slot_indices, lookup)
               ELSE <<>>
    IN [indices |-> [i \in 1..Len(ids) |-> IndexLookup(ids[i], fl)],
        loose_dbs |-> ix.loose_dbs,
        marker |-> marker_of(ix)]

(***************************************************************************)
(* The store as a state machine: the objects directory changes, callers    *)
(* run load_one_index, which may refresh (consolidate_with_disk_state).    *)
(***************************************************************************)
EmptySlot == [files |-> NoValue, generation |-> 0]

InitialIndex == [current |-> TRUE, generation |-> 0, slot_indices |-> <<>>,
                 loose_dbs |-> <<>>, next_index_to_load |-> 0,
                 loaded_indices |-> 0]

\* a caller that is not inside load_one_index
IdleCaller ==
    [pc |-> "idle", marker |-> NoValue, prev |-> NoValue, pend |-> NoValue,
     stable |-> FALSE, held |-> NoValue, res |-> NoValue]

\* a caller that never calls
OffCaller == [IdleCaller EXCEPT !.pc = "off"]

\* a pack index is written once: the modification time it has while it exists
IdxMtime == [p \in {"a.idx", "b.idx"} |-> IF p = "a.idx" THEN 1 ELSE 2]

\* The pack directory as a refresh finds it: the modification time of every
\* index file (0: no such file); the multi-pack-index is rewritten in place.
\* It is the input of every scan: the directory may have changed in any way
\* since the scan before.
Directories ==
    {d \in [IndexPaths -> 0..MaxMtime] :
        \A p \in DOMAIN IdxMtime : d[p] \in {0, IdxMtime[p]}}

\* The markers a caller can pass: the one of the published SlotMapIndex and
\* those of the SlotMapIndex values that were replaced.
Markers ==
    {marker_of(index)}
        \cup {[generation |-> g, current |-> FALSE] : g \in superseded}

Max(a, b) == IF a >= b THEN a ELSE b

\* refs after a step that leaves ix published over the slots fl
RefsAfter(r, ix, fl) ==
    IF r = NoValue THEN r
    ELSE [s \in Slots |-> [p \in IndexPaths |->
            IF /\ \E i \in 1..Len(ix.slot_indices) : ix.slot_indices[i] = s
               /\ fl[s].files # NoValue
               /\ fl[s].files.index_path = p
            THEN Max(r[s][p], ix.generation)
            ELSE r[s][p]]]

\* published after a step that stores ix over the slots fl
PublishedAfter(pub, ix, fl) ==
    IF pub = NoValue THEN pub
    ELSE [listed |-> pub.listed \cup
            {[generation |-> ix.generation, slot |-> ix.slot_indices[i],
              index_path |-> fl[ix.slot_indices[i]].files.index_path,
              mtime |-> fl[ix.slot_indices[i]].files.mtime] :
                i \in {j \in 1..Len(ix.slot_indices) :
                           fl[ix.slot_indices[j]].files # NoValue}}]

LastInit == [seen |-> NoValue, complete |-> FALSE, back_to_back |-> FALSE,
             stored |-> FALSE]

\* last after the scan of dir, which ended with err
LastAfterScan(l, dir, err) ==
    IF l = NoValue THEN l
    ELSE [seen |-> dir, complete |-> FALSE,
          back_to_back |-> err = "none" /\ l.complete /\ l.seen = dir,
          stored |-> FALSE]

\* last after the refresh got past line 308, having stored or not
LastAfterStore(l, stored) ==
    IF l = NoValue THEN l ELSE [l EXCEPT !.complete = TRUE, !.stored = stored]

\* The store after construction.  callers: the callers that call; tracked: the
\* history variables that are recorded.
InitStore(callers, tracked) ==
    /\ index = InitialIndex
    /\ files = [s \in Slots |-> EmptySlot]
    /\ lock = 0
    /\ num_handles_stable \in 0..1
    /\ debug_assertions \in BOOLEAN
    /\ thr = [t \in Callers |-> IF t \in callers THEN IdleCaller ELSE OffCaller]
    /\ superseded = {}
    /\ refs = IF "refs" \in tracked
              THEN [s \in Slots |-> [p \in IndexPaths |-> -1]]
              ELSE NoValue
    /\ last = IF "last" \in tracked THEN LastInit ELSE NoValue
    /\ published = IF "published" \in tracked THEN [listed |-> {}] ELSE NoValue
    /\ num_disk_state_consolidation =
          IF "num_disk_state_consolidation" \in tracked THEN 0 ELSE NotCounted

\* ---- the environment ----
\* a handle that requires stable indices is created
AddStableHandle ==
    /\ num_handles_stable = 0
    /\ num_handles_stable' = 1
    /\ UNCHANGED <<index, files, lock, debug_assertions, thr, superseded, refs,
                   last, published,
                   num_disk_state_consolidation>>
    /\ UNCHANGED <<dvars, tvars, gvars, pvars>>

\* ... and dropped
DropStableHandle ==
    /\ num_handles_stable = 1
    /\ num_handles_stable' = 0
    /\ UNCHANGED <<index, files, lock, debug_assertions, thr, superseded, refs,
                   last, published,
                   num_disk_state_consolidation>>
    /\ UNCHANGED <<dvars, tvars, gvars, pvars>>

\* the bundle of a slot becomes disposable (its file was found missing)
MarkDisposable(s) ==
    /\ files[s].files # NoValue
    /\ ~files[s].files.disposable
    /\ files' = [files EXCEPT ![s].files = trash(files[s].files)]
    /\ UNCHANGED <<index, lock, num_handles_stable, debug_assertions, thr,
                   superseded, refs, last, published,
                   num_disk_state_consolidation>>
    /\ UNCHANGED <<dvars, tvars, gvars, pvars>>

\* A handle loads the index file that the cursor of the published SlotMapIndex
\* points at and moves the cursor on (the lazy loading that line 95 leaves to
\* the handles): the bundle is loaded from then on, the counters of the
\* SlotMapIndex are shared atomics, not a new SlotMapIndex.
LoadNextIndex ==
    /\ index.next_index_to_load < Len(index.slot_indices)
    /\ LET s == index.slot_indices[index.next_index_to_load + 1]
           loads == files[s].files # NoValue /\ ~loaded(files[s].files)
       IN /\ files' = IF loads THEN [files EXCEPT ![s].files.loaded = TRUE]
                      ELSE files
          /\ index' = [index EXCEPT !.next_index_to_load = @ + 1,
                                    !.loaded_indices = IF loads THEN @ + 1 ELSE @]
    /\ UNCHANGED <<lock, num_handles_stable, debug_assertions, thr, superseded,
                   refs, last, published, num_disk_state_consolidation>>
    /\ UNCHANGED <<dvars, tvars, gvars, pvars>>

\* line 128: fetch_add(1, Relaxed) on the counter, where it is recorded
fetch_add(counter) == IF counter = NotCounted THEN counter ELSE counter + 1

\* ---- load_one_index, lines 78-107 ----
\* a load_one_index that refreshes whatever the refresh mode is
LoadOneIndexIgnoresMode(t, refresh_mode, marker) ==
    /\ thr[t].pc = "idle"
    /\ index.generation < MaxGeneration \/ index.generation = GenerationMax
    /\ num_disk_state_consolidation < MaxConsolidations
    /\ thr' = [thr EXCEPT ![t] =
          IF ~is_initialized(index)
          THEN [@ EXCEPT !.pc = "capture", !.marker = marker]
          ELSE IF marker.generation # index.generation
          THEN [@ EXCEPT !.pc = "snap_index", !.marker = marker,
                         !.stable = FALSE]
          ELSE IF marker.current
          THEN [@ EXCEPT !.pc = "capture", !.marker = marker]
          ELSE [@ EXCEPT !.pc = "snap_index", !.marker = marker,
                         !.stable = TRUE]]
    /\ UNCHANGED <<index, files, lock, num_handles_stable, debug_assertions,
                   superseded, refs, last, published,
                   num_disk_state_consolidation>>
    /\ UNCHANGED <<dvars, tvars, gvars, pvars>>

\* the call, up to the branch taken; no call starts at MaxGeneration, the
\* bound of the generations that are explored (at Generation::MAX the code
\* raises the generation no further), nor after MaxConsolidations refreshes
\* where they are counted
LoadOneIndex(t, refresh_mode, marker) ==
    /\ thr[t].pc = "idle"
    /\ index.generation < MaxGeneration \/ index.generation = GenerationMax
    /\ num_disk_state_consolidation < MaxConsolidations
    /\ thr' = [thr EXCEPT ![t] =
          IF ~is_initialized(index)
          THEN [@ EXCEPT !.pc = "capture", !.marker = marker]
          ELSE IF marker.generation # index.generation
          THEN [@ EXCEPT !.pc = "snap_index", !.marker = marker,
                         !.stable = FALSE]
          ELSE IF marker.current
          THEN IF refresh_mode = "Never"
               THEN [@ EXCEPT !.pc = "done", !.marker = marker,
                              !.res = [kind |-> "None"]]
               ELSE [@ EXCEPT !.pc = "capture", !.marker = marker]
          ELSE [@ EXCEPT !.pc = "snap_index", !.marker = marker,
                         !.stable = TRUE]]
    /\ UNCHANGED <<index, files, lock, num_handles_stable, debug_assertions,
                   superseded, refs, last, published,
                   num_disk_state_consolidation>>
    /\ UNCHANGED <<dvars, tvars, gvars, pvars>>

\* a call of load_one_index by t
Call(t) ==
    \E refresh_mode \in {"Never", "AfterAllIndicesLoaded"}, marker \in Markers :
       LoadOneIndex(t, refresh_mode, marker)

\* the caller has the outcome
Return(t) ==
    /\ thr[t].pc = "done"
    /\ thr' = [thr EXCEPT ![t] = IdleCaller]
    /\ UNCHANGED <<index, files, lock, num_handles_stable, debug_assertions,
                   superseded, refs, last, published,
                   num_disk_state_consolidation>>
    /\ UNCHANGED <<dvars, tvars, gvars, pvars>>

\* ---- consolidate_with_disk_state ----
\* lines 111-113
Capture(t) ==
    /\ thr[t].pc = "capture"
    /\ thr' = [thr EXCEPT ![t].pc = "lock",
                          ![t].prev = marker_of(index)]
    /\ UNCHANGED <<index, files, lock, num_handles_stable, debug_assertions,
                   superseded, refs, last, published,
                   num_disk_state_consolidation>>
    /\ UNCHANGED <<dvars, tvars, gvars, pvars>>

\* a mutex that is taken although another thread holds it
LockNotExclusive(t) ==
    /\ thr[t].pc = "lock"
    /\ lock' = t
    /\ thr' = [thr EXCEPT ![t] =
          IF ~thr[t].prev.current
          THEN [@ EXCEPT !.pc = "snap_index",
                         !.stable = (index.generation = thr[t].prev.generation),
                         !.prev = NoValue]
          ELSE [@ EXCEPT !.pc = "scan", !.prev = NoValue]]
    /\ num_disk_state_consolidation' =
          IF thr[t].prev.current
          THEN fetch_add(num_disk_state_consolidation)
          ELSE num_disk_state_consolidation
    /\ UNCHANGED <<index, files, num_handles_stable, debug_assertions,
                   superseded, refs, last, published>>
    /\ UNCHANGED <<dvars, tvars, gvars, pvars>>

\* a refresh that counts itself before it looks at the SlotMapIndex again
LockCountsFirst(t) ==
    /\ thr[t].pc = "lock"
    /\ lock = 0
    /\ lock' = t
    /\ thr' = [thr EXCEPT ![t] =
          IF ~thr[t].prev.current
          THEN [@ EXCEPT !.pc = "snap_index",
                         !.stable = (index.generation = thr[t].prev.generation),
                         !.prev = NoValue]
          ELSE [@ EXCEPT !.pc = "scan", !.prev = NoValue]]
    /\ num_disk_state_consolidation' = fetch_add(num_disk_state_consolidation)
    /\ UNCHANGED <<index, files, num_handles_stable, debug_assertions,
                   superseded, refs, last, published>>
    /\ UNCHANGED <<dvars, tvars, gvars, pvars>>

\* lines 116-128
Lock(t) ==
    /\ thr[t].pc = "lock"
    /\ lock = 0
    /\ lock' = t
    /\ thr' = [thr EXCEPT ![t] =
          IF ~thr[t].prev.current
          THEN [@ EXCEPT !.pc = "snap_index",
                         !.stable = (index.generation = thr[t].prev.generation),
                         !.prev = NoValue]
          ELSE [@ EXCEPT !.pc = "scan", !.prev = NoValue]]
    /\ num_disk_state_consolidation' =
          IF thr[t].prev.current
          THEN fetch_add(num_disk_state_consolidation)
          ELSE num_disk_state_consolidation
    /\ UNCHANGED <<index, files, num_handles_stable, debug_assertions,
                   superseded, refs, last, published>>
    /\ UNCHANGED <<dvars, tvars, gvars, pvars>>

\* lines 127-300
Scan(t, dir, err) ==
    /\ thr[t].pc = "scan"
    /\ LET r == consolidate_or_fail(index, files, dir, err, num_handles_stable,
                                    debug_assertions)
       IN /\ files' = r.files
          /\ refs' = RefsAfter(refs, index, r.files)
          /\ last' = LastAfterScan(last, dir, err)
          /\ IF r.status = "ok"
             THEN /\ thr' = [thr EXCEPT ![t].pc = "publish",
                                        ![t].pend = [slot_indices |-> r.slot_indices,
                                                     loose_dbs |-> r.loose_dbs,
                                                     generation |-> r.generation,
                                                     num_loaded_indices |->
                                                         r.num_loaded_indices]]
                  /\ UNCHANGED lock
             ELSE /\ thr' = [thr EXCEPT ![t].pc = "done",
                                        ![t].res = [kind |-> r.status,
                                                    needed |-> r.needed,
                                                    line |-> r.line]]
                  /\ lock' = 0
    /\ UNCHANGED <<index, num_handles_stable, debug_assertions, superseded,
                   published, num_disk_state_consolidation>>
    /\ UNCHANGED <<dvars, tvars, gvars, pvars>>

\* line 302
generation_assert_fails(ix, pend) ==
    pend.generation # ix.generation /\ index_unchanged(ix, pend.slot_indices)

\* the copies of the identity of the SlotMapIndex that is replaced
Superseded(c) ==
    [c EXCEPT !.marker = IF @ = NoValue THEN @ ELSE [@ EXCEPT !.current = FALSE],
              !.prev = IF @ = NoValue THEN @ ELSE [@ EXCEPT !.current = FALSE],
              !.held = IF @ = NoValue THEN @ ELSE [@ EXCEPT !.current = FALSE]]

\* lines 301-329: the assertion, the store of the new SlotMapIndex, and the
\* todo!() that ends the function
Publish(t) ==
    /\ thr[t].pc = "publish"
    /\ LET pend == thr[t].pend
           panicked == [kind |-> "panic", needed |-> 0, line |-> 329]
       IN
       IF generation_assert_fails(index, pend)
       THEN /\ thr' = [thr EXCEPT ![t].pc = "done", ![t].pend = NoValue,
                                  ![t].res = [panicked EXCEPT !.line = 303]]
            /\ UNCHANGED <<index, superseded, refs, last, published>>
       ELSE IF must_publish(index, pend)
       THEN /\ index' = new_index(index, pend)
            /\ superseded' = superseded \cup {index.generation}
            /\ refs' = RefsAfter(refs, index', files)
            /\ published' = PublishedAfter(published, index', files)
            /\ last' = LastAfterStore(last, TRUE)
            /\ thr' = [u \in Callers |->
                         IF u = t
                         THEN [Superseded(thr[u]) EXCEPT !.pc = "done",
                                                         !.pend = NoValue,
                                                         !.res = panicked]
                         ELSE Superseded(thr[u])]
       ELSE /\ last' = LastAfterStore(last, FALSE)
            /\ thr' = [thr EXCEPT ![t].pc = "done", ![t].pend = NoValue,
                                  ![t].res = panicked]
            /\ UNCHANGED <<index, superseded, refs, published>>
    /\ lock' = 0
    /\ UNCHANGED <<files, num_handles_stable, debug_assertions,
                   num_disk_state_consolidation>>
    /\ UNCHANGED <<dvars, tvars, gvars, pvars>>

\* ---- collect_replace_outcome / collect_snapshot, lines 485-524 ----
\* a collect_snapshot that takes the objects_directory mutex first
SnapIndexUnderMutex(t) ==
    /\ thr[t].pc = "snap_index"
    /\ lock \in {0, t}
    /\ lock' = t
    /\ thr' = [thr EXCEPT ![t].pc = "snap_slots", ![t].held = index]
    /\ UNCHANGED <<index, files, num_handles_stable, debug_assertions,
                   superseded, refs, last, published,
                   num_disk_state_consolidation>>
    /\ UNCHANGED <<dvars, tvars, gvars, pvars>>

\* line 486
SnapIndex(t) ==
    /\ thr[t].pc = "snap_index"
    /\ thr' = [thr EXCEPT ![t].pc = "snap_slots", ![t].held = index]
    /\ UNCHANGED <<index, files, lock, num_handles_stable, debug_assertions,
                   superseded, refs, last, published,
                   num_disk_state_consolidation>>
    /\ UNCHANGED <<dvars, tvars, gvars, pvars>>

\* lines 487-524, and the return to the caller of load_one_index
SnapSlots(t) ==
    /\ thr[t].pc = "snap_slots"
    /\ LET snapshot == collect_snapshot(thr[t].held, files) IN
       thr' = [thr EXCEPT ![t].pc = "done", ![t].held = NoValue,
                          ![t].stable = FALSE,
                          ![t].res = [kind |-> IF thr[t].stable THEN "ReplaceStable"
                                               ELSE "Replace",
                                      snapshot |-> snapshot]]
    /\ lock' = IF lock = t THEN 0 ELSE lock
    /\ UNCHANGED <<index, files, num_handles_stable, debug_assertions,
                   superseded, refs, last, published,
                   num_disk_state_consolidation>>
    /\ UNCHANGED <<dvars, tvars, gvars, pvars>>

Next ==
    \/ AddStableHandle
    \/ DropStableHandle
    \/ \E s \in Slots : MarkDisposable(s)
    \/ \E t \in Callers : Call(t)
    \/ \E t \in Callers : Return(t)
    \/ \E t \in Callers : Capture(t)
    \/ \E t \in Callers : Lock(t)
    \/ \E t \in Callers, dir \in Directories, err \in ScanOutcomes :
          Scan(t, dir, err)
    \/ \E t \in Callers : Publish(t)
    \/ \E t \in Callers : SnapIndex(t)
    \/ \E t \in Callers : SnapSlots(t)

\* the store with handles that load index files
NextLazy ==
    \/ Next
    \/ LoadNextIndex

(***************************************************************************)
(* The decoder as a state machine: the calling thread, the entry workers   *)
(* and the extension worker.                                               *)
(***************************************************************************)
InitDecode ==
    /\ \E c \in PathChoices, v \in Versions, hasIeot \in BOOLEAN,
          hasEoie \in BOOLEAN, sparseAt \in 0..1, sdir \in BOOLEAN,
          extSize \in 1..2 :
          \E sizes \in (IF hasIeot THEN Compositions(Len(c)) ELSE {<<>>}) :
             dfile = MakeFile(c, v, sizes, hasIeot, hasEoie, sparseAt, sdir, extSize)
    /\ dthreads \in 1..MaxThreads
    /\ dminext = 1
    /\ dpc = "start"
    /\ workers = <<>>
    /\ finished = <<>>
    /\ extw = "none"
    /\ iter = [pos |-> 1, sequence |-> 0, store |-> {}, is_done |-> FALSE]
    /\ acc = NoValue
    /\ entries_res = NoValue
    /\ ext_res = NoValue
    /\ dresult = NoValue

\* line 74: Some(offset) if num_threads > 1
parallel_arm == start_of_extensions(dfile).some /\ dthreads > 1

\* lines 78-82: the extension worker is spawned for a large extension block
spawn_extension_worker == dfile.ext.size > dminext

\* lines 84-129: IEOT found, one worker per group of descriptors
StartParallelIeot ==
    /\ dpc = "start"
    /\ header_decode(dfile)
    /\ parallel_arm
    /\ index_offsets_table(dfile).some
    /\ LET offsets == index_offsets_table(dfile).offsets
           groups == chunks(offsets,
                            chunk_size(Len(offsets), entry_threads(dthreads)))
       IN workers' = [i \in 1..Len(groups) |->
                         [state |-> "running", id |-> i - 1, descs |-> groups[i],
                          out |-> NoValue]]
    /\ extw' = IF spawn_extension_worker THEN "running" ELSE "none"
    /\ dpc' = "first"
    /\ UNCHANGED <<dfile, dthreads, dminext, finished, iter, acc, entries_res,
                   ext_res, dresult>>
    /\ UNCHANGED <<svars, tvars, gvars, pvars>>

\* line 160: no IEOT, the calling thread decodes all entries
StartParallelNoIeot ==
    /\ dpc = "start"
    /\ header_decode(dfile)
    /\ parallel_arm
    /\ ~index_offsets_table(dfile).some
    /\ extw' = IF spawn_extension_worker THEN "running" ELSE "none"
    /\ dpc' = "load_entries"
    /\ UNCHANGED <<dfile, dthreads, dminext, workers, finished, iter, acc,
                   entries_res, ext_res, dresult>>
    /\ UNCHANGED <<svars, tvars, gvars, pvars>>

LoadEntriesInline ==
    /\ dpc = "load_entries"
    /\ entries_res' = load_entries(dfile)
    /\ dpc' = "ext"
    /\ UNCHANGED <<dfile, dthreads, dminext, workers, finished, extw, iter, acc,
                   ext_res, dresult>>
    /\ UNCHANGED <<svars, tvars, gvars, pvars>>

\* line 61 returns the error of the header, or lines 177-187
Sequential ==
    /\ dpc = "start"
    /\ ~header_decode(dfile) \/ ~parallel_arm
    /\ dresult' = IF ~header_decode(dfile) THEN [ok |-> FALSE, err |-> "Header"]
                  ELSE from_bytes_sequential(dfile)
    /\ dpc' = "done"
    /\ UNCHANGED <<dfile, dthreads, dminext, workers, finished, extw, iter, acc,
                   entries_res, ext_res>>
    /\ UNCHANGED <<svars, tvars, gvars, pvars>>

\* lines 90-128: an entry worker runs to its end
WorkerFinish(i) ==
    /\ i \in 1..Len(workers)
    /\ workers[i].state = "running"
    /\ workers' = [workers EXCEPT
                     ![i].state = "done",
                     ![i].out = worker_body(dfile, workers[i].id, workers[i].descs,
                                            <<>>, <<>>, FALSE)]
    /\ finished' = Append(finished, workers[i].id)
    /\ UNCHANGED <<dfile, dthreads, dminext, dpc, extw, iter, acc, entries_res,
                   ext_res, dresult>>
    /\ UNCHANGED <<svars, tvars, gvars, pvars>>

\* line 81: the extension worker runs to its end
ExtWorkerFinish ==
    /\ extw = "running"
    /\ extw' = "done"
    /\ UNCHANGED <<dfile, dthreads, dminext, dpc, workers, finished, iter, acc,
                   entries_res, ext_res, dresult>>
    /\ UNCHANGED <<svars, tvars, gvars, pvars>>

\* line 132: results.next() for the first result
FirstResult ==
    /\ dpc = "first"
    /\ next_joined(iter) \in 1..Len(workers)
    /\ workers[next_joined(iter)].state = "done"
    /\ LET r == in_order_next(iter, workers[next_joined(iter)].out)
       IN /\ iter' = [r.iter EXCEPT !.pos = iter.pos + 1]
          /\ IF r.yield.some
             THEN acc' = r.yield.res /\ dpc' = "merge"
             ELSE UNCHANGED <<acc, dpc>>
    /\ UNCHANGED <<dfile, dthreads, dminext, workers, finished, extw,
                   entries_res, ext_res, dresult>>
    /\ UNCHANGED <<svars, tvars, gvars, pvars>>

\* lines 141-157: one evaluation of (acc.as_mut(), results.next()) that joins
\* the next worker
MergeStep ==
    /\ dpc = "merge"
    /\ ~iter.is_done
    /\ next_joined(iter) \in 1..Len(workers)
    /\ workers[next_joined(iter)].state = "done"
    /\ LET r == in_order_next(iter, workers[next_joined(iter)].out)
       IN /\ iter' = [r.iter EXCEPT !.pos = iter.pos + 1]
          /\ IF ~r.yield.some THEN UNCHANGED <<acc, dpc, entries_res>>
             ELSE IF ~acc.ok
             THEN entries_res' = acc /\ dpc' = "ext" /\ UNCHANGED acc
             ELSE /\ acc' = IF r.yield.res.ok
                            THEN [ok |-> TRUE,
                                  outcome |-> merge_outcome(acc.outcome,
                                                            r.yield.res.outcome)]
                            ELSE r.yield.res
                  /\ UNCHANGED <<dpc, entries_res>>
    /\ UNCHANGED <<dfile, dthreads, dminext, workers, finished, extw, ext_res,
                   dresult>>
    /\ UNCHANGED <<svars, tvars, gvars, pvars>>

\* lines 141, 158: results.next() finds no further thread to join
MergeEnd ==
    /\ dpc = "merge"
    /\ iter.is_done \/ next_joined(iter) > Len(workers)
    /\ LET r == IF iter.is_done THEN [iter |-> iter, yield |-> [some |-> FALSE]]
                ELSE in_order_end(iter)
       IN /\ iter' = r.iter
          /\ IF r.yield.some /\ acc.ok
             THEN /\ acc' = IF r.yield.res.ok
                            THEN [ok |-> TRUE,
                                  outcome |-> merge_outcome(acc.outcome,
                                                            r.yield.res.outcome)]
                            ELSE r.yield.res
                  /\ UNCHANGED <<dpc, entries_res>>
             ELSE /\ entries_res' = IF acc.ok
                                    THEN [ok |-> TRUE, outcome |-> acc.outcome,
                                          data |-> HashLen]
                                    ELSE acc
                  /\ dpc' = "ext"
                  /\ UNCHANGED acc
    /\ UNCHANGED <<dfile, dthreads, dminext, workers, finished, extw, ext_res,
                   dresult>>
    /\ UNCHANGED <<svars, tvars, gvars, pvars>>

\* lines 168-170: join the extension worker, or decode the extensions here
ExtJoin ==
    /\ dpc = "ext"
    /\ extw # "running"
    /\ ext_res' = extension_decode_all(dfile)
    /\ dpc' = "finish"
    /\ UNCHANGED <<dfile, dthreads, dminext, workers, finished, extw, iter, acc,
                   entries_res, dresult>>
    /\ UNCHANGED <<svars, tvars, gvars, pvars>>

\* lines 172-227: the scope ends (every worker is joined), then ext_res? and
\* entries_res? and the trailer check
Finish ==
    /\ dpc = "finish"
    /\ \A i \in 1..Len(workers) : workers[i].state = "done"
    /\ dresult' = IF ~ext_res.ok THEN [ok |-> FALSE, err |-> ext_res.err]
                  ELSE IF ~entries_res.ok THEN [ok |-> FALSE, err |-> entries_res.err]
                  ELSE finish(dfile, entries_res.outcome, ext_res.ext, ext_res.data)
    /\ dpc' = "done"
    /\ UNCHANGED <<dfile, dthreads, dminext, workers, finished, extw, iter, acc,
                   entries_res, ext_res>>
    /\ UNCHANGED <<svars, tvars, gvars, pvars>>

NextDecode ==
    \/ StartParallelIeot
    \/ StartParallelNoIeot
    \/ LoadEntriesInline
    \/ Sequential
    \/ \E i \in 1..MaxEntries : WorkerFinish(i)
    \/ ExtWorkerFinish
    \/ FirstResult
    \/ MergeStep
    \/ MergeEnd
    \/ ExtJoin
    \/ Finish

(***************************************************************************)
(* git-tempfile: force_setup and the lazy REGISTER                         *)
(***************************************************************************)
\* SignalHandlerMode as usize (lines 59-66)
DeleteTempfilesOnTermination == 0
DeleteTempfilesOnTerminationAndRestoreDefaultBehaviour == 1
SignalHandlerMode ==
    {DeleteTempfilesOnTermination,
     DeleteTempfilesOnTerminationAndRestoreDefaultBehaviour}

\* SignalHandlerMode::default() (lines 72-77): by cfg(test)
default(test) ==
    IF test THEN DeleteTempfilesOnTermination
    ELSE DeleteTempfilesOnTerminationAndRestoreDefaultBehaviour

\* signal_hook::consts::TERM_SIGNALS, in the order of the loop of line 40
TERM_SIGNALS == <<"SIGTERM", "SIGQUIT", "SIGINT">>

\* a thread outside any call into the crate
IdleUser == [pc |-> "idle", call |-> "none", mode |-> 0, sig |-> 0,
             later |-> FALSE, calls |-> 0]

\* REGISTER before its first use
Uninit == [state |-> "uninit", by |-> 0, map |-> {}]

\* force_setup(mode) is called (line 124); `later` records whether a
\* force_setup call had returned before this one began
ForceSetup(t, mode) ==
    /\ tthr[t].pc = "idle"
    /\ tthr[t].calls < MaxCalls
    /\ tthr' = [tthr EXCEPT ![t] = [@ EXCEPT !.pc = "store",
                                             !.call = "force_setup",
                                             !.mode = mode,
                                             !.later = first_setup # NoValue]]
    /\ UNCHANGED <<SIGNAL_HANDLER_MODE, NEXT_MAP_INDEX, REGISTER, handlers,
                   first_setup>>
    /\ UNCHANGED <<dvars, svars, gvars, pvars>>

\* SIGNAL_HANDLER_MODE.store(mode as usize, Relaxed) (line 125)
StoreMode(t) ==
    /\ tthr[t].pc = "store"
    /\ SIGNAL_HANDLER_MODE' = tthr[t].mode
    /\ tthr' = [tthr EXCEPT ![t].pc = "force"]
    /\ UNCHANGED <<NEXT_MAP_INDEX, REGISTER, handlers, first_setup>>
    /\ UNCHANGED <<dvars, svars, gvars, pvars>>

\* where a call goes on once REGISTER is initialised
after_force(call) == IF call = "force_setup" THEN "return" ELSE "insert"

\* Lazy::force(&REGISTER) (line 126) and the deref of REGISTER by the other
\* facilities: the first thread to get here runs the initialiser of lines
\* 39-56, a thread that finds it running waits, a thread that finds it done
\* goes on
LazyForce(t) ==
    /\ tthr[t].pc = "force"
    /\ REGISTER.state # "running"
    /\ IF REGISTER.state = "uninit"
       THEN /\ REGISTER' = [REGISTER EXCEPT !.state = "running", !.by = t]
            /\ tthr' = [tthr EXCEPT ![t] = [@ EXCEPT !.pc = "init", !.sig = 1]]
       ELSE /\ REGISTER' = REGISTER
            /\ tthr' = [tthr EXCEPT ![t].pc = after_force(tthr[t].call)]
    /\ UNCHANGED <<SIGNAL_HANDLER_MODE, NEXT_MAP_INDEX, handlers, first_setup>>
    /\ UNCHANGED <<dvars, svars, gvars, pvars>>

\* one round of the loop of lines 40-54: a handler is registered for the
\* next termination signal (registration of these signals does not fail);
\* after the last one the DashMap is created (line 55)
Install(t) ==
    /\ tthr[t].pc = "init"
    /\ LET sig == TERM_SIGNALS[tthr[t].sig]
       IN handlers' = [handlers EXCEPT ![sig] = @ + 1]
    /\ IF tthr[t].sig < Len(TERM_SIGNALS)
       THEN /\ tthr' = [tthr EXCEPT ![t].sig = @ + 1]
            /\ REGISTER' = REGISTER
       ELSE /\ tthr' = [tthr EXCEPT ![t] =
                           [@ EXCEPT !.pc = after_force(tthr[t].call),
                                     !.sig = 0]]
            /\ REGISTER' = [state |-> "init", by |-> 0, map |-> {}]
    /\ UNCHANGED <<SIGNAL_HANDLER_MODE, NEXT_MAP_INDEX, first_setup>>
    /\ UNCHANGED <<dvars, svars, gvars, pvars>>

\* force_setup returns (line 127)
ReturnSetup(t) ==
    /\ tthr[t].pc = "return"
    /\ first_setup' = IF first_setup = NoValue
                      THEN [mode |-> tthr[t].mode]
                      ELSE first_setup
    /\ tthr' = [tthr EXCEPT ![t] = [IdleUser EXCEPT !.calls = tthr[t].calls + 1]]
    /\ UNCHANGED <<SIGNAL_HANDLER_MODE, NEXT_MAP_INDEX, REGISTER, handlers>>
    /\ UNCHANGED <<dvars, svars, gvars, pvars>>

\* new(containing_directory) (lines 110-112): the first use of REGISTER by
\* a facility other than force_setup initialises it
New(t) ==
    /\ tthr[t].pc = "idle"
    /\ tthr[t].calls < MaxCalls
    /\ tthr' = [tthr EXCEPT ![t] = [@ EXCEPT !.pc = "force", !.call = "new",
                                             !.later = FALSE]]
    /\ UNCHANGED <<SIGNAL_HANDLER_MODE, NEXT_MAP_INDEX, REGISTER, handlers,
                   first_setup>>
    /\ UNCHANGED <<dvars, svars, gvars, pvars>>

\* the tempfile is registered under the next id and the call returns
Insert(t) ==
    /\ tthr[t].pc = "insert"
    /\ NEXT_MAP_INDEX' = NEXT_MAP_INDEX + 1
    /\ REGISTER' = [REGISTER EXCEPT !.map = @ \cup {NEXT_MAP_INDEX}]
    /\ tthr' = [tthr EXCEPT ![t] = [IdleUser EXCEPT !.calls = tthr[t].calls + 1]]
    /\ UNCHANGED <<SIGNAL_HANDLER_MODE, handlers, first_setup>>
    /\ UNCHANGED <<dvars, svars, gvars, pvars>>

NextSetup ==
    \/ \E t \in Callers, mode \in SignalHandlerMode : ForceSetup(t, mode)
    \/ \E t \in Callers : StoreMode(t)
    \/ \E t \in Callers : LazyForce(t)
    \/ \E t \in Callers : Install(t)
    \/ \E t \in Callers : ReturnSetup(t)
    \/ \E t \in Callers : New(t)
    \/ \E t \in Callers : Insert(t)

\* git-tempfile while the decoder or the store runs: unused
TempfileIdle ==
    /\ SIGNAL_HANDLER_MODE = default(FALSE)
    /\ NEXT_MAP_INDEX = 0
    /\ REGISTER = Uninit
    /\ handlers = [sig \in {TERM_SIGNALS[i] : i \in 1..Len(TERM_SIGNALS)} |-> 0]
    /\ tthr = [t \in Callers |-> IdleUser]
    /\ first_setup = NoValue

(***************************************************************************)
(* git-refspec: Needle and Matcher::matches_lhs                            *)
(***************************************************************************)
\* a string as the sequence of its bytes
Chars(t) ==
    CASE t = "HEAD" -> <<"H", "E", "A", "D">>
      [] t = "/HEAD" -> <<"/", "H", "E", "A", "D">>
      [] t = "refs/" -> <<"r", "e", "f", "s", "/">>
      [] t = "heads/" -> <<"h", "e", "a", "d", "s", "/">>
      [] t = "tags/" -> <<"t", "a", "g", "s", "/">>
      [] t = "remotes/" -> <<"r", "e", "m", "o", "t", "e", "s", "/">>
      [] t = "refs/tags/" -> <<"r", "e", "f", "s", "/", "t", "a", "g", "s", "/">>
      [] t = "refs/heads/" ->
            <<"r", "e", "f", "s", "/", "h", "e", "a", "d", "s", "/">>
      [] t = "refs/remotes/" ->
            <<"r", "e", "f", "s", "/", "r", "e", "m", "o", "t", "e", "s", "/">>

\* all strings over alphabet of the lengths in lens
Strings(alphabet, lens) == UNION {[1..n -> alphabet] : n \in lens}

\* the sides of the ref-specs: strings with and without asterisks, and HEAD
Names == Strings({"a", "/", "*"}, 1..MaxName) \cup {Chars("HEAD")}

\* the names of the references on the other side
ItemNames == Strings({"a", "/"}, 0..MaxItem) \cup {Chars("HEAD")}

Some(v) == [some |-> TRUE, v |-> v]
None == [some |-> FALSE]

\* s.starts_with(t), s.ends_with(t)
starts_with(s, t) == Len(t) <= Len(s) /\ SubSeq(s, 1, Len(t)) = t
ends_with(s, t) ==
    Len(t) <= Len(s) /\ SubSeq(s, Len(s) - Len(t) + 1, Len(s)) = t

\* s.find_byte(b): the offset of the first b in s
find_byte(s, b) ==
    IF \E i \in 1..Len(s) : s[i] = b
    THEN Some((CHOOSE i \in 1..Len(s) :
                  s[i] = b /\ \A j \in 1..(i - 1) : s[j] # b) - 1)
    ELSE None

\* s.get(..n)
get_to(s, n) == IF n <= Len(s) THEN Some(SubSeq(s, 1, n)) ELSE None

\* whether the index expression s[from..to] panics, and its value if not
slice_panics(s, from, to) == from > to \/ to > Len(s)
slice(s, from, to) == SubSeq(s, from + 1, to)

\* From<&BStr> for Needle (lines 154-169); no name within the bounds is the
\* hex form of an object id
needle_from(v) ==
    LET pos == find_byte(v, "*")
    IN IF pos.some THEN [kind |-> "Glob", name |-> v, asterisk_pos |-> pos.v]
       ELSE IF starts_with(v, Chars("refs/")) \/ v = Chars("HEAD")
       THEN [kind |-> "FullName", name |-> v]
       ELSE [kind |-> "PartialName", name |-> v]

\* From<RefSpecRef> for Matcher (lines 171-178)
matcher_from(src, dst) ==
    [lhs |-> IF src.some THEN Some(needle_from(src.v)) ELSE None,
     rhs |-> IF dst.some THEN Some(needle_from(dst.v)) ELSE None]

Panic(line) == [kind |-> "panic", line |-> line]

\* line 104: the offset of the first '/' of the matched text, counted from
\* the start of that text, or the end of the matched text
glob_end(full_ref_name, asterisk_pos, end) ==
    LET at == find_byte(slice(full_ref_name, asterisk_pos, end), "/")
    IN IF at.some THEN at.v ELSE end

\* the candidates of the PartialName arm (lines 72-84), in order
partial_candidates(name) ==
    <<Chars("refs/") \o name,
      Chars("refs/tags/") \o name,
      Chars("refs/heads/") \o name,
      Chars("refs/remotes/") \o name,
      Chars("refs/remotes/") \o name \o Chars("/HEAD")>>

\* Needle::matches (lines 61-117) without the Object arm
matches(needle, full_ref_name) ==
    CASE needle.kind = "FullName" ->
            IF needle.name = full_ref_name THEN [kind |-> "Normal"]
            ELSE [kind |-> "None"]
      [] needle.kind = "PartialName" ->
            IF \E i \in 1..5 : partial_candidates(needle.name)[i] = full_ref_name
            THEN [kind |-> "Normal"]
            ELSE [kind |-> "None"]
      [] needle.kind = "Glob" ->
            LET name == needle.name
                asterisk_pos == needle.asterisk_pos
                portion == get_to(full_ref_name, asterisk_pos)
                tail == SubSeq(name, asterisk_pos + 2, Len(name))
                end == Len(full_ref_name) - Len(tail)
            IN IF ~portion.some THEN [kind |-> "None"]
               ELSE IF portion.v # SubSeq(name, 1, asterisk_pos)
               THEN [kind |-> "None"]
               ELSE IF ~ends_with(full_ref_name, tail) THEN [kind |-> "None"]
               ELSE IF slice_panics(full_ref_name, asterisk_pos, end)
               THEN Panic(104)
               ELSE [kind |-> "GlobRange", start |-> asterisk_pos,
                     end |-> glob_end(full_ref_name, asterisk_pos, end)]

\* Needle::to_bstr_replace (lines 119-147) without the Object arm; range is
\* None or Some of the range and the name of the item
to_bstr_replace(needle, range) ==
    IF range.some
    THEN IF needle.kind = "Glob"
         THEN LET r == range.v.range
                  full_ref_name == range.v.item
                  name == needle.name
              IN IF slice_panics(full_ref_name, r.start, r.end)
                 THEN Panic(133)
                 ELSE [kind |-> "value",
                       v |-> SubSeq(name, 1, needle.asterisk_pos)
                             \o slice(full_ref_name, r.start, r.end)
                             \o SubSeq(name, needle.asterisk_pos + 2, Len(name))]
         ELSE Panic(144)
    ELSE CASE needle.kind = "FullName" -> [kind |-> "value", v |-> needle.name]
           [] needle.kind = "PartialName" ->
                 [kind |-> "value",
                  v |-> Chars("refs/")
                        \o (IF starts_with(needle.name, Chars("tags/"))
                               \/ starts_with(needle.name, Chars("remotes/"))
                            THEN <<>> ELSE Chars("heads/"))
                        \o needle.name]
           [] needle.kind = "Glob" -> Panic(142)

\* Match::is_match (lines 46-48)
is_match(m) == m.kind # "None"

\* Match::into_match_outcome (lines 49-56)
into_match_outcome(m, destination, full_ref_name) ==
    IF m.kind = "None" THEN [kind |-> "value", matched |-> FALSE, dst |-> None]
    ELSE LET arg == IF m.kind = "Normal" THEN None
                    ELSE Some([range |-> [start |-> m.start, end |-> m.end],
                               item |-> full_ref_name])
             dst == to_bstr_replace(destination, arg)
         IN IF dst.kind = "panic" THEN dst
            ELSE [kind |-> "value", matched |-> TRUE, dst |-> Some(dst.v)]

\* Matcher::matches_lhs (lines 19-25)
matches_lhs(m, full_ref_name) ==
    IF ~m.lhs.some THEN Panic(23)
    ELSE LET hit == matches(m.lhs.v, full_ref_name)
         IN IF hit.kind = "panic" THEN hit
            ELSE IF ~m.rhs.some
            THEN [kind |-> "value", matched |-> is_match(hit), dst |-> None]
            ELSE into_match_outcome(hit, m.rhs.v, full_ref_name)

\* a Matcher is made of the two sides of a ref-spec
NewMatcher(src, dst) ==
    /\ mpc = "idle"
    /\ matcher' = matcher_from(src, dst)
    /\ mpc' = "ready"
    /\ UNCHANGED <<mitem, mfound, moutcome>>
    /\ UNCHANGED <<dvars, svars, tvars, pvars>>

\* matches_lhs is called with an item
MatchesLhs(full_ref_name) ==
    /\ mpc = "ready"
    /\ mitem' = full_ref_name
    /\ mfound' = IF matcher.lhs.some THEN matches(matcher.lhs.v, full_ref_name)
                 ELSE NoValue
    /\ moutcome' = matches_lhs(matcher, full_ref_name)
    /\ mpc' = "done"
    /\ UNCHANGED matcher
    /\ UNCHANGED <<dvars, svars, tvars, pvars>>

NextMatch ==
    \/ \E src \in {Some(n) : n \in Names} \cup {None},
          dst \in {Some(n) : n \in Names} \cup {None} : NewMatcher(src, dst)
    \/ \E full_ref_name \in ItemNames : MatchesLhs(full_ref_name)

\* no Matcher has been made
MatchIdle ==
    /\ matcher = NoValue
    /\ mpc = "idle"
    /\ mitem = NoValue
    /\ mfound = NoValue
    /\ moutcome = NoValue

(***************************************************************************)
(* git-repository: discover::existing, is_git and Path                     *)
(***************************************************************************)
\* absolute paths as sequences of components below the root
Paths == UNION {[1..n -> {"r", ".git"}] : n \in 0..MaxDepth}

\* what a directory can hold of HEAD, objects/, refs/ and index
Layouts ==
    {{}, {"HEAD", "refs"}, {"HEAD", "objects", "refs"},
     {"HEAD", "objects", "refs", "index"}}

\* no directory at the path
Absent == {"absent"}

\* Path::parent: None for the root
parent(path) ==
    IF path = <<>> THEN None ELSE Some(SubSeq(path, 1, Len(path) - 1))

\* Path::join with one component
join(path, component) == Append(path, component)

\* the file systems: the root is a directory, and so is the parent of every
\* directory
FileSystems ==
    {f \in [Paths -> Layouts \cup {Absent}] :
        /\ f[<<>>] # Absent
        /\ \A q \in Paths : (q # <<>> /\ f[q] # Absent) => f[parent(q).v] # Absent}

\* what the file system f holds at path
Lookup(f, path) == IF path \in DOMAIN f THEN f[path] ELSE Absent

\* Path::is_dir
is_dir(f, path) == Lookup(f, path) # Absent

\* is_git (lines 76-107); find_one_existing("HEAD") finds the file HEAD of
\* the directory or fails
is_git(f, env, dot_git) ==
    LET holds == Lookup(f, dot_git)
        objects_is_dir == IF env = NoValue THEN "objects" \in holds
                          ELSE is_dir(f, env.path)
    IN IF "HEAD" \notin holds THEN [ok |-> FALSE, err |-> "FindHeadRef"]
       ELSE IF ~objects_is_dir
       THEN [ok |-> FALSE, err |-> "MissingObjectsDirectory"]
       ELSE IF "refs" \notin holds
       THEN [ok |-> FALSE, err |-> "MissingRefsDirectory"]
       ELSE [ok |-> TRUE,
             kind |-> IF "index" \in holds THEN "WorkingTree" ELSE "Bare"]

\* Path::from_dot_git_dir (lines 33-39)
from_dot_git_dir(dir, k) ==
    IF k = "WorkingTree"
    THEN IF parent(dir).some
         THEN [kind |-> "value", variant |-> "WorkingTree", path |-> parent(dir).v]
         ELSE Panic(36)
    ELSE [kind |-> "value", variant |-> "Repository", path |-> dir]

\* Path::kind (lines 40-45)
kind(p) == IF p.variant = "WorkingTree" THEN "WorkingTree" ELSE "Bare"

\* Path::into_repository (lines 47-52)
into_repository(p) ==
    IF p.variant = "WorkingTree" THEN join(p.path, ".git") ELSE p.path

\* existing is called (lines 21-27)
Existing(dir) ==
    /\ xpc = "idle"
    /\ directory' = dir
    /\ IF ~is_dir(fs, dir)
       THEN /\ xresult' = [kind |-> "error", err |-> "InaccessibleDirectory",
                           path |-> dir]
            /\ xpc' = "done"
            /\ UNCHANGED cursor
       ELSE /\ cursor' = dir
            /\ xpc' = "cursor"
            /\ UNCHANGED xresult
    /\ UNCHANGED <<fs, GIT_OBJECT_DIRECTORY, accepted>>
    /\ UNCHANGED <<dvars, svars, tvars, gvars>>

\* lines 29-31: is the cursor a git directory?
CheckCursor ==
    /\ xpc = "cursor"
    /\ LET res == is_git(fs, GIT_OBJECT_DIRECTORY, cursor)
       IN IF res.ok
          THEN /\ accepted' = [dir |-> cursor, kind |-> res.kind]
               /\ xresult' = from_dot_git_dir(cursor, res.kind)
               /\ xpc' = "done"
          ELSE /\ xpc' = "dot_git"
               /\ UNCHANGED <<accepted, xresult>>
    /\ UNCHANGED <<fs, GIT_OBJECT_DIRECTORY, directory, cursor>>
    /\ UNCHANGED <<dvars, svars, tvars, gvars>>

\* lines 32-35: is its .git child one?
CheckDotGit ==
    /\ xpc = "dot_git"
    /\ LET git_dir == join(cursor, ".git")
           res == is_git(fs, GIT_OBJECT_DIRECTORY, git_dir)
       IN IF res.ok
          THEN /\ accepted' = [dir |-> git_dir, kind |-> res.kind]
               /\ xresult' = from_dot_git_dir(git_dir, res.kind)
               /\ xpc' = "done"
          ELSE /\ xpc' = "parent"
               /\ UNCHANGED <<accepted, xresult>>
    /\ UNCHANGED <<fs, GIT_OBJECT_DIRECTORY, directory, cursor>>
    /\ UNCHANGED <<dvars, svars, tvars, gvars>>

\* lines 36-39: go on with the parent, or fail at the root
ToParent ==
    /\ xpc = "parent"
    /\ IF parent(cursor).some
       THEN /\ cursor' = parent(cursor).v
            /\ xpc' = "cursor"
            /\ UNCHANGED xresult
       ELSE /\ xresult' = [kind |-> "error", err |-> "NoGitRepository",
                           path |-> directory]
            /\ xpc' = "done"
            /\ UNCHANGED cursor
    /\ UNCHANGED <<fs, GIT_OBJECT_DIRECTORY, directory, accepted>>
    /\ UNCHANGED <<dvars, svars, tvars, gvars>>

NextDiscover ==
    \/ \E dir \in Paths : Existing(dir)
    \/ CheckCursor
    \/ CheckDotGit
    \/ ToParent

\* the repository discovery while another subsystem runs: not called
DiscoverIdle ==
    /\ fs = NoValue
    /\ GIT_OBJECT_DIRECTORY = NoValue
    /\ directory = NoValue
    /\ cursor = NoValue
    /\ xpc = "idle"
    /\ accepted = NoValue
    /\ xresult = NoValue

\* the store while an index file is decoded: as constructed, untouched
StoreIdle ==
    /\ index = InitialIndex
    /\ files = [s \in Slots |-> EmptySlot]
    /\ lock = 0
    /\ num_handles_stable = 0
    /\ debug_assertions = FALSE
    /\ thr = [t \in Callers |-> OffCaller]
    /\ superseded = {}
    /\ refs = NoValue
    /\ last = NoValue
    /\ published = NoValue
    /\ num_disk_state_consolidation = NotCounted

\* the decoder while the store runs: no decode under way
DecodeIdle ==
    /\ dfile = NoValue
    /\ dthreads = 1
    /\ dminext = 1
    /\ dpc = "idle"
    /\ workers = <<>>
    /\ finished = <<>>
    /\ extw = "none"
    /\ iter = NoValue
    /\ acc = NoValue
    /\ entries_res = NoValue
    /\ ext_res = NoValue
    /\ dresult = NoValue

\* a decode
InitOfDecode == InitDecode /\ StoreIdle /\ TempfileIdle /\ MatchIdle /\ DiscoverIdle

SpecDecode == InitOfDecode /\ [][NextDecode]_vars

\* a decode of a file that may be damaged
InitDamaged ==
    /\ \E c \in PathChoices, v \in Versions, hasIeot \in BOOLEAN,
          hasEoie \in BOOLEAN, extSize \in 1..2, extBad \in BOOLEAN,
          trailer \in TrailerLengths, headerOk \in BOOLEAN :
          \E sizes \in (IF hasIeot THEN Compositions(Len(c)) ELSE {<<>>}),
             corruptAt \in 0..Len(c) :
             dfile = Damaged(MakeFile(c, v, sizes, hasIeot, hasEoie, 0, FALSE,
                                      extSize),
                             corruptAt, extBad, trailer, headerOk)
    /\ dthreads \in 1..MaxThreads
    /\ dminext = 1
    /\ dpc = "start"
    /\ workers = <<>>
    /\ finished = <<>>
    /\ extw = "none"
    /\ iter = [pos |-> 1, sequence |-> 0, store |-> {}, is_done |-> FALSE]
    /\ acc = NoValue
    /\ entries_res = NoValue
    /\ ext_res = NoValue
    /\ dresult = NoValue
    /\ StoreIdle /\ TempfileIdle /\ MatchIdle /\ DiscoverIdle

SpecDamaged == InitDamaged /\ [][NextDecode]_vars

\* A decode of a file whose IEOT table need not cover the entries that the
\* header counts: its descriptors cover the first k of them.  Nothing that
\* from_bytes calls compares the table with the header.
InitIeot ==
    /\ \E c \in PathChoices, v \in Versions, hasEoie \in BOOLEAN,
          sparseAt \in 0..1, extSize \in 1..2 :
          \E k \in 0..Len(c) :
             \E sizes \in Compositions(k) :
                dfile = MakeFile(c, v, sizes, TRUE, hasEoie, sparseAt, FALSE,
                                 extSize)
    /\ dthreads \in 1..MaxThreads
    /\ dminext = 1
    /\ dpc = "start"
    /\ workers = <<>>
    /\ finished = <<>>
    /\ extw = "none"
    /\ iter = [pos |-> 1, sequence |-> 0, store |-> {}, is_done |-> FALSE]
    /\ acc = NoValue
    /\ entries_res = NoValue
    /\ ext_res = NoValue
    /\ dresult = NoValue
    /\ StoreIdle /\ TempfileIdle /\ MatchIdle /\ DiscoverIdle

SpecIeot == InitIeot /\ [][NextDecode]_vars

\* a decode of a file whose extension block may hold an UNTR record and one
\* of whose entries may not decode
InitUntracked ==
    /\ \E c \in PathChoices, v \in Versions, hasIeot \in BOOLEAN,
          hasEoie \in BOOLEAN, extSize \in 1..2, untr \in BOOLEAN :
          \E sizes \in (IF hasIeot THEN Compositions(Len(c)) ELSE {<<>>}),
             corruptAt \in 0..Len(c) :
             dfile = [Damaged(MakeFile(c, v, sizes, hasIeot, hasEoie, 0, FALSE,
                                       extSize),
                              corruptAt, FALSE, HashLen, TRUE)
                         EXCEPT !.ext.untr = untr]
    /\ dthreads \in 1..MaxThreads
    /\ dminext = 1
    /\ dpc = "start"
    /\ workers = <<>>
    /\ finished = <<>>
    /\ extw = "none"
    /\ iter = [pos |-> 1, sequence |-> 0, store |-> {}, is_done |-> FALSE]
    /\ acc = NoValue
    /\ entries_res = NoValue
    /\ ext_res = NoValue
    /\ dresult = NoValue
    /\ StoreIdle /\ TempfileIdle /\ MatchIdle /\ DiscoverIdle

SpecUntracked == InitUntracked /\ [][NextDecode]_vars

\* two callers of the store
Init == InitStore({1, 2}, {}) /\ DecodeIdle /\ TempfileIdle /\ MatchIdle /\ DiscoverIdle

Spec == Init /\ [][Next]_vars

\* one caller; what the latest refresh saw and did is recorded
InitRefresh == InitStore({1}, {"last"}) /\ DecodeIdle /\ TempfileIdle /\ MatchIdle /\ DiscoverIdle

SpecRefresh == InitRefresh /\ [][Next]_vars

\* one caller; the paths the listed slots referred to are recorded
InitSlots == InitStore({1}, {"refs"}) /\ DecodeIdle /\ TempfileIdle /\ MatchIdle /\ DiscoverIdle

SpecSlots == InitSlots /\ [][Next]_vars

\* A store that has raised its generation up to Generation::MAX: one caller,
\* the SlotMapIndex lists slot 0 with the multi-pack-index, slot 1 holds the
\* bundle of a.idx, which is gone from the directory; both slots were filled
\* during the generation before.  Same-generation copies of this state are
\* reached from the fresh store by the refreshes that reuse a slot.
InitOverflow ==
    /\ index = [current |-> TRUE, generation |-> GenerationMax,
                slot_indices |-> <<0>>, loose_dbs |-> db_paths,
                next_index_to_load |-> 0, loaded_indices |-> 0]
    /\ files = [s \in Slots |->
                  IF s = 0
                  THEN [files |-> new_by_index_path("multi-pack-index", 1),
                        generation |-> GenerationMax - 1]
                  ELSE IF s = 1
                  THEN [files |-> new_by_index_path("a.idx", IdxMtime["a.idx"]),
                        generation |-> GenerationMax - 1]
                  ELSE EmptySlot]
    /\ lock = 0
    /\ num_handles_stable \in 0..1
    /\ debug_assertions \in BOOLEAN
    /\ thr = [t \in Callers |-> IF t = 1 THEN IdleCaller ELSE OffCaller]
    /\ superseded = {GenerationMax - 1}
    /\ refs = NoValue
    /\ last = LastInit
    /\ published = NoValue
    /\ num_disk_state_consolidation = NotCounted
    /\ DecodeIdle /\ TempfileIdle /\ MatchIdle /\ DiscoverIdle

SpecOverflow == InitOverflow /\ [][Next]_vars

\* two callers, a build without debug assertions, no handle at first; a
\* thread that loads the SlotMapIndex and the slots goes on to its next step:
\* nothing in lines 485-524 waits.  No other step is required to happen, so a
\* thread may stay in a refresh, holding its mutexes, for ever.
InitReaders ==
    /\ InitStore({1, 2}, {})
    /\ num_handles_stable = 0
    /\ debug_assertions = FALSE
    /\ DecodeIdle /\ TempfileIdle /\ MatchIdle /\ DiscoverIdle

SpecReaders ==
    /\ InitReaders
    /\ [][Next]_vars
    /\ \A t \in Callers : WF_vars(SnapIndex(t)) /\ WF_vars(SnapSlots(t))

\* Two callers and handles that load index files, a build without debug
\* assertions; the refreshes are counted and what every stored SlotMapIndex
\* listed is recorded.
InitSnapshot ==
    /\ InitStore({1, 2}, {"published", "num_disk_state_consolidation"})
    /\ debug_assertions = FALSE
    /\ DecodeIdle /\ TempfileIdle /\ MatchIdle /\ DiscoverIdle

SpecSnapshot == InitSnapshot /\ [][NextLazy]_vars

\* the statics as the program starts (lines 37-39), in either build
InitSetup ==
    /\ SIGNAL_HANDLER_MODE \in {default(test) : test \in BOOLEAN}
    /\ NEXT_MAP_INDEX = 0
    /\ REGISTER = Uninit
    /\ handlers = [sig \in {TERM_SIGNALS[i] : i \in 1..Len(TERM_SIGNALS)} |-> 0]
    /\ tthr = [t \in Callers |-> IdleUser]
    /\ first_setup = NoValue
    /\ StoreIdle /\ DecodeIdle /\ MatchIdle /\ DiscoverIdle

\* the tempfile set-up: two threads, MaxCalls calls each
SpecSetup == InitSetup /\ [][NextSetup]_vars

\* the ref-spec matcher: every Matcher within the bounds meets every item
InitMatch ==
    MatchIdle /\ StoreIdle /\ DecodeIdle /\ TempfileIdle /\ DiscoverIdle

SpecMatch == InitMatch /\ [][NextMatch]_vars

\* a file system and an environment in which existing has not been called
InitDiscover ==
    /\ fs \in FileSystems
    /\ GIT_OBJECT_DIRECTORY \in {NoValue, [path |-> <<"r">>]}
    /\ directory = NoValue
    /\ cursor = NoValue
    /\ xpc = "idle"
    /\ accepted = NoValue
    /\ xresult = NoValue
    /\ StoreIdle /\ DecodeIdle /\ TempfileIdle /\ MatchIdle

\* the repository discovery: every directory of every file system
SpecDiscover == InitDiscover /\ [][NextDiscover]_vars

(***************************************************************************)
(* Properties of the decoder                                               *)
(***************************************************************************)
\* the stat/id content of the entries, in order
Ords(entries) == [i \in 1..Len(entries) |-> entries[i].ord]

\* path_backing projected through the range of an entry
PathOf(backing, e) == SubSeq(backing, e.path.start + 1, e.path.end)

PathsOf(outcome) ==
    [i \in 1..Len(outcome.entries) |-> PathOf(outcome.path_backing, outcome.entries[i])]

\* what a caller can observe of a result of from_bytes
Observable(res) ==
    IF res.ok
    THEN [ok |-> TRUE, version |-> res.version, entries |-> Ords(res.entries),
          paths |-> PathsOf(res), is_sparse |-> res.is_sparse, ext |-> res.ext,
          checksum |-> res.checksum]
    ELSE res

IeotParallel == dfile.eoie /\ index_offsets_table(dfile).some /\ dthreads >= 2

\* C1: for a valid file with a verifying EOIE and an IEOT table, from_bytes
\* with 2 or more threads returns what it returns with 1 thread: the same
\* entries in the same order, the same path bytes per entry, the same
\* is_sparse, extension payloads and checksum.
C1_ParallelEqualsSequential ==
    (dpc = "done" /\ IeotParallel)
        => /\ dresult.ok
           /\ Observable(dresult) = Observable(from_bytes_sequential(dfile))

C1_Witness ==
    /\ dpc = "done" /\ IeotParallel /\ dresult.ok
    /\ Len(workers) >= 2
    /\ dfile.version = 4
    /\ Len(dresult.entries) = MaxEntries
    /\ PathsOf(dresult) = dfile.paths
    /\ dresult.is_sparse

\* the entries of every worker, concatenated in ascending chunk id
WorkerEntriesInIdOrder ==
    Flatten([i \in 1..Len(workers) |-> Ords(workers[i].out.outcome.entries)])

\* C2: on the IEOT-driven parallel path the merged entry list is the
\* concatenation of the per-worker entry lists in ascending chunk id, in
\* whatever order the workers finish.
C2_MergedInChunkOrder ==
    (dpc \in {"ext", "finish", "done"} /\ workers # <<>> /\ entries_res.ok)
        => Ords(entries_res.outcome.entries) = WorkerEntriesInIdOrder

\* the last chunk finished first, and the merge is complete
C2_Witness ==
    /\ dpc = "done" /\ Len(workers) >= 2
    /\ entries_res.ok
    /\ finished[1] = Len(workers) - 1
    /\ Len(entries_res.outcome.entries) >= 2

\* (worker, position) of every entry of the first n workers, in merge order
RECURSIVE MergedFrom(_)
MergedFrom(n) ==
    IF n = 0 THEN <<>>
    ELSE MergedFrom(n - 1)
         \o [j \in 1..Len(workers[n].out.outcome.entries) |-> [w |-> n, j |-> j]]

\* C3: after the merge of per-worker outcomes every entry e has
\* e.path.start <= e.path.end <= len(path_backing), and the merged
\* path_backing holds under e's range the bytes that e's range selected in
\* the private path buffer of its worker.
C3_MergedRangesSelectWorkerPaths ==
    (workers # <<>> /\ acc # NoValue /\ acc.ok)
        => LET m == acc.outcome
               from == MergedFrom(iter.sequence)
           IN /\ Len(m.entries) = Len(from)
              /\ \A k \in 1..Len(m.entries) :
                    LET e == m.entries[k]
                        priv == workers[from[k].w].out.outcome
                    IN /\ 0 <= e.path.start
                       /\ e.path.start <= e.path.end
                       /\ e.path.end <= Len(m.path_backing)
                       /\ PathOf(m.path_backing, e)
                            = PathOf(priv.path_backing, priv.entries[from[k].j])

\* an entry of a later chunk was merged: its range moved and still selects
\* its path
C3_Witness ==
    /\ workers # <<>> /\ acc # NoValue /\ acc.ok
    /\ iter.sequence >= 2
    /\ \E k \in 1..Len(acc.outcome.entries) :
          /\ MergedFrom(iter.sequence)[k].w = 2
          /\ acc.outcome.entries[k].path.start > 0
          /\ acc.outcome.entries[k].path.end > acc.outcome.entries[k].path.start
          /\ acc.outcome.entries[k].path.start
               # workers[2].out.outcome.entries[MergedFrom(iter.sequence)[k].j].path.start

\* header, entries and extensions of the file f decode
DecodesUpToTrailer(f) ==
    /\ header_decode(f)
    /\ \A i \in 1..Len(f.disk) : ~f.disk[i].bad
    /\ ~f.ext.bad

\* C17: from_bytes fails with UnexpectedTrailerLength, expected hash_len and
\* actual n, exactly when header, entries and extensions decode and the n
\* bytes left after the extensions are not hash_len bytes, on either arm.
C17_TrailerLengthError ==
    dpc = "done" =>
       LET trailer_error == ~dresult.ok /\ dresult.err = "UnexpectedTrailerLength"
       IN /\ trailer_error <=> (DecodesUpToTrailer(dfile) /\ dfile.trailer # HashLen)
          /\ trailer_error => /\ dresult.expected = HashLen
                              /\ dresult.actual = dfile.trailer

\* the entry workers and the extension worker decoded a file with one byte
\* too many after the extensions, and from_bytes returned the error
C17_Witness ==
    /\ dpc = "done"
    /\ Len(workers) >= 2
    /\ extw = "done"
    /\ dfile.trailer = HashLen + 1
    /\ ~dresult.ok
    /\ dresult.err = "UnexpectedTrailerLength"

\* C18: when the header, an entry chunk or the extension block does not
\* decode, from_bytes returns an error, which carries no entries: also when
\* the failing chunk is that of a worker after workers that succeeded.
C18_FailurePropagates ==
    (dpc = "done" /\ ~DecodesUpToTrailer(dfile))
    => /\ ~dresult.ok
       /\ DOMAIN dresult \cap {"entries", "path_backing", "checksum"} = {}

\* the first worker succeeded with entries, a later one failed, and
\* from_bytes returned the error of the entry
C18_Witness ==
    /\ dpc = "done"
    /\ Len(workers) >= 2
    /\ workers[1].out.ok
    /\ workers[1].out.outcome.entries # <<>>
    /\ \E i \in 2..Len(workers) : ~workers[i].out.ok
    /\ ~dresult.ok
    /\ dresult.err = "Entry"

\* C21: when from_bytes succeeds, the State it returns has as many entries as
\* the header of the file counts, on the sequential arm and on the arm that
\* decodes the chunks of the IEOT table.
C21_EntryCountIsHeaderCount ==
    (dpc = "done" /\ dresult.ok) => Len(dresult.entries) = dfile.num_entries

\* from_bytes has left line 73 with a header that decoded
Dispatched == dpc \notin {"idle", "start"} /\ header_decode(dfile)

\* C32: without a verifying EOIE record, with an effective thread count of 1
\* or without an IEOT table, no worker thread is spawned, neither for entries
\* nor for the extensions, and from_bytes returns what the sequential decode
\* of entries and then extensions returns.
C32_SequentialWithoutWorkers ==
    (/\ Dispatched
     /\ \/ ~start_of_extensions(dfile).some
        \/ dthreads = 1
        \/ ~index_offsets_table(dfile).some)
    => /\ workers = <<>>
       /\ extw = "none"
       /\ dpc = "done"
          => Observable(dresult) = Observable(from_bytes_sequential(dfile))

\* the IEOT arm of from_bytes is under way or over
IeotArm == Dispatched /\ workers # <<>>

\* the groups that entry_offsets.chunks(ceil(n / w)) yields
GroupsFor(offsets, w) == chunks(offsets, chunk_size(Len(offsets), w))

\* C33: on the IEOT arm an extension worker exists exactly when the extension
\* block is larger than min_extension_block_in_bytes_for_threading, and the
\* descriptors are grouped for num_threads - 1 entry workers when it exists
\* and for num_threads entry workers when it does not.
C33_ThreadReservedOnlyForExtensionWorker ==
    IeotArm =>
       LET large == dfile.ext.size > dminext
           available == IF large THEN dthreads - 1 ELSE dthreads
       IN /\ (extw # "none") <=> large
          /\ Len(workers) =
                Len(GroupsFor(index_offsets_table(dfile).offsets, available))

Variant(res) == IF res.ok THEN "Ok" ELSE res.err

\* what from_bytes returns for the file f with an effective thread count of 1
from_bytes_one_thread(f) ==
    IF ~header_decode(f) THEN [ok |-> FALSE, err |-> "Header"]
    ELSE from_bytes_sequential(f)

\* C35: from_bytes succeeds or fails with the same error variant whatever the
\* thread count: what it returns has the variant of the result of the decode
\* of the same file with one thread.
C35_OutcomeIndependentOfThreads ==
    dpc = "done" => Variant(dresult) = Variant(from_bytes_one_thread(dfile))

\* the values that from_bytes returns: a State or one of the Error variants
Returned(res) ==
    res.ok \/ res.err \in {"Header", "Entry", "Extension",
                           "UnexpectedTrailerLength"}

\* C36: the decode of an index whose extension block holds an UNTR record
\* ends with a value returned by from_bytes, a State or an Error: it does not
\* end with a panic of the UNTR decoder.
C36_UntrackedDecodeReturns ==
    (dpc = "done" /\ dfile.ext.untr) => Returned(dresult)

(***************************************************************************)
(* Properties of the ref-spec matcher                                      *)
(***************************************************************************)
\* matches_lhs has run with a glob on the left
GlobMatched ==
    mpc = "done" /\ matcher.lhs.some /\ matcher.lhs.v.kind = "Glob"

\* the pattern `name` with the asterisk at pos replaced by m
Replaced(name, pos, m) ==
    SubSeq(name, 1, pos) \o m \o SubSeq(name, pos + 2, Len(name))

\* every run of consecutive bytes of s
Substrings(s) ==
    {SubSeq(s, i, j) : i \in 1..(Len(s) + 1), j \in 0..Len(s)}

\* C37: Needle::matches of a glob returns for every item name, and a range
\* r that it returns has asterisk_pos = r.start <= r.end <= the length of
\* the item name less the length of the pattern text after the asterisk.
C37_GlobRangeWithinItem ==
    GlobMatched =>
       LET lhs == matcher.lhs.v
           tail == SubSeq(lhs.name, lhs.asterisk_pos + 2, Len(lhs.name))
       IN /\ mfound.kind # "panic"
          /\ mfound.kind = "GlobRange"
             => /\ mfound.start = lhs.asterisk_pos
                /\ mfound.start <= mfound.end
                /\ mfound.end <= Len(mitem) - Len(tail)

\* C38: with a glob on both sides, when the left side matches the item,
\* matches_lhs returns (true, Some(dst)) where dst is the right side with its
\* asterisk replaced by the text m for which the left side with its asterisk
\* replaced by m is the name of the item; when the left side does not match,
\* it returns (false, None).
C38_DestinationFromMatchedText ==
    (GlobMatched /\ matcher.rhs.some /\ matcher.rhs.v.kind = "Glob")
    => LET lhs == matcher.lhs.v
           rhs == matcher.rhs.v
       IN /\ mfound.kind = "GlobRange"
             => /\ moutcome.kind = "value"
                /\ moutcome.matched
                /\ moutcome.dst.some
                /\ \E m \in Substrings(mitem) :
                      /\ Replaced(lhs.name, lhs.asterisk_pos, m) = mitem
                      /\ moutcome.dst.v = Replaced(rhs.name, rhs.asterisk_pos, m)
          /\ mfound.kind = "None"
             => moutcome = [kind |-> "value", matched |-> FALSE, dst |-> None]

(***************************************************************************)
(* Properties of the repository discovery                                  *)
(***************************************************************************)
\* C39: when existing accepts a directory d as a git directory of kind k, be
\* it the directory it looks at or the .git child of it, the Path made of d
\* and k by from_dot_git_dir gives d back as into_repository() and k back as
\* kind().
C39_PathRoundTrip ==
    (xpc = "done" /\ accepted # NoValue)
    => /\ xresult.kind = "value"
       /\ into_repository(xresult) = accepted.dir
       /\ kind(xresult) = accepted.kind

(***************************************************************************)
(* Properties of the store                                                 *)
(***************************************************************************)
\* the step stores a new SlotMapIndex (line 323)
Stores == index' # index

\* the slot indices a SlotMapIndex lists
Listed(ix) == {ix.slot_indices[i] : i \in 1..Len(ix.slot_indices)}

\* C4: if a slot index was listed in a published SlotMapIndex while its slot
\* held the index path P and the slot holds a bundle of another path when a
\* SlotMapIndex is stored, the generation of the stored SlotMapIndex is
\* greater than that of every SlotMapIndex in which the slot index referred
\* to P.
C4_ReuseBumpsGeneration ==
    [][Stores =>
         \A s \in Slots, P \in IndexPaths :
            (/\ refs[s][P] >= 0
             /\ files'[s].files # NoValue
             /\ files'[s].files.index_path # P)
            => index'.generation > refs[s][P]]_vars

\* C5: the generation of the published SlotMapIndex never decreases, and a
\* newly published SlotMapIndex has the generation of the one before or that
\* generation plus 1, whichever threads refresh.
C5_GenerationStepsByOne ==
    [][index'.generation \in {index.generation, index.generation + 1}]_vars

\* a refresh raised the generation while the other caller waits for the lock
\* with the SlotMapIndex it captured before
C5_Witness ==
    /\ index.generation = 1
    /\ \E t \in Callers, u \in Callers :
          /\ t # u
          /\ thr[t].pc = "done" /\ thr[t].res.kind = "panic"
          /\ thr[u].pc = "lock" /\ ~thr[u].prev.current

\* the step is the return of a refresh that scanned the directory the
\* refresh before it scanned, which got as far as line 308
ReturnsUnchangedDirectory(t) ==
    /\ thr[t].pc \in {"scan", "publish"}
    /\ thr'[t].pc = "done"
    /\ last'.back_to_back

\* C6: a refresh of an initialised store whose index files and modification
\* times are those of the refresh before leaves the published generation
\* unchanged and returns ReplaceStable.
C6_UnchangedDirectoryReplaceStable ==
    [][\A t \in Callers :
          ReturnsUnchangedDirectory(t)
          => /\ index'.generation = index.generation
             /\ thr'[t].res.kind = "ReplaceStable"]_vars

\* C7: the second of two back-to-back refreshes with no change of the
\* directory in between stores no SlotMapIndex.
C7_BackToBackStoresNothing ==
    [][\A t \in Callers : ReturnsUnchangedDirectory(t) => ~Stores]_vars

\* C8: when a refresh stores a SlotMapIndex, every slot index it lists refers
\* to a populated slot whose index path is one that the refresh found in the
\* directory.
C8_ListedSlotsAreDiscovered ==
    [][Stores =>
         \A s \in Listed(index') :
            /\ files'[s].files # NoValue
            /\ last'.seen[files'[s].files.index_path] > 0]_vars

\* a refresh stored a SlotMapIndex that lists a slot and leaves out a
\* populated slot, the one of a file that is gone
C8_Witness ==
    /\ last # NoValue
    /\ last.stored
    /\ Listed(index) # {}
    /\ \E s \in Slots \ Listed(index) :
          /\ files[s].files # NoValue
          /\ last.seen[files[s].files.index_path] = 0

\* C9: when load_one_index(mode, marker) returns ReplaceStable(snapshot),
\* snapshot.marker.generation equals marker.generation; a returned snapshot
\* of another generation comes as Replace.
C9_ReplaceStableKeepsGeneration ==
    \A t \in Callers :
       (/\ thr[t].pc = "done"
        /\ thr[t].res.kind \in {"Replace", "ReplaceStable"}
        /\ thr[t].res.snapshot.marker.generation # thr[t].marker.generation)
       => thr[t].res.kind = "Replace"

\* C10: while a handle that requires stable indices is live, no step changes
\* the index file of a slot that holds a bundle.
C10_StableHandlesKeepSlots ==
    [][num_handles_stable > 0 =>
         \A s \in Slots :
            files[s].files # NoValue
            => /\ files'[s].files.index_path = files[s].files.index_path
               /\ files'[s].files.mtime = files[s].files.mtime]_vars

\* the step is the scan of a refresh by t that ends with an error of the file
\* system
ScanFails(t) ==
    /\ thr[t].pc = "scan"
    /\ thr'[t].pc = "done"
    /\ thr'[t].res.kind \in ScanErrors

\* the step is the scan of a refresh by t that read the directory (lines
\* 127-300), up to the publishing or the return of an error
Scans(t) == thr[t].pc = "scan" /\ thr'[t].pc # "scan" /\ ~ScanFails(t)

\* C11: when the published SlotMapIndex lists the slot of a multi-pack-index,
\* a handle that requires stable indices is live and the refresh finds the
\* multi-pack-index with another modification time, the refresh puts the new
\* multi-pack-index into another slot, listed by the SlotMapIndex it goes on to
\* publish, makes the bundle of the old slot disposable and raises the
\* generation by one.
C11_ChangedMultiPackIndexMoves ==
    [][\A t \in Callers, s \in Listed(index) :
          (/\ Scans(t)
           /\ num_handles_stable > 0
           /\ is_initialized(index)
           /\ files[s].files # NoValue
           /\ is_multipack_index(files[s].files.index_path)
           /\ last'.seen["multi-pack-index"] \notin {0, files[s].files.mtime})
          => /\ thr'[t].pc = "publish"
             /\ thr'[t].pend.generation = index.generation + 1
             /\ files'[s].files.disposable
             /\ \E d \in Slots \ {s} :
                   /\ d \in Listed(thr'[t].pend)
                   /\ files'[d].files # NoValue
                   /\ is_multipack_index(files'[d].files.index_path)
                   /\ files'[d].files.mtime = last'.seen["multi-pack-index"]]_vars

\* C12: the first refresh of a fresh store (generation 0, every slot empty)
\* that finds an index file goes on to publish a SlotMapIndex of generation 1.
C12_FirstRefreshPublishesGenerationOne ==
    [][\A t \in Callers :
          (/\ Scans(t)
           /\ index = InitialIndex
           /\ \A s \in Slots : files[s] = EmptySlot
           /\ \E p \in IndexPaths : last'.seen[p] > 0)
          => /\ thr'[t].pc = "publish"
             /\ thr'[t].pend.generation = 1]_vars

\* C13: the slot indices of a stored SlotMapIndex are in the order of the
\* modification times of the index files of their slots, newest first.
C13_PublishedNewestFirst ==
    [][Stores =>
         \A i \in 1..Len(index'.slot_indices), j \in 1..Len(index'.slot_indices) :
            i < j => files'[index'.slot_indices[i]].files.mtime
                        >= files'[index'.slot_indices[j]].files.mtime]_vars

\* C14: a refresh that fails with an error of the file system (Io, Alternate)
\* leaves the published SlotMapIndex and the bundle and generation of every
\* slot as they were.
C14_FailedScanChangesNothing ==
    [][\A t \in Callers : ScanFails(t) => index' = index /\ files' = files]_vars

\* a refresh of an initialised store failed on a directory with a new file
\* while a slot is empty
C14_Witness ==
    /\ is_initialized(index)
    /\ \E t \in Callers :
          /\ thr[t].pc = "done"
          /\ thr[t].res.kind \in ScanErrors
    /\ \E s \in Slots : files[s].files = NoValue
    /\ \E p \in IndexPaths :
          /\ last.seen[p] > 0
          /\ \A s \in Slots : files[s].files # NoValue
                                => files[s].files.index_path # p

\* the locals of a refresh of the published SlotMapIndex after the loop of
\* lines 186-224 over the directory dir
Reconciled(dir) ==
    reconcile(indices_by_modification_time(dir), index,
              [files |-> files, map |-> idx_by_index_path(index, files),
               new |-> <<>>, add |-> <<>>, status |-> "ok",
               next |-> next_possibly_free_index(index), checked |-> 0,
               needs_generation_change |-> FALSE, needed |-> 0, line |-> 0,
               num_loaded_indices |-> 0])

\* the slots of fl that can take an index: the empty ones and, when no handle
\* requires stable indices, the disposable ones
Available(fl) ==
    {s \in Slots : \/ fl[s].files = NoValue
                   \/ num_handles_stable = 0 /\ fl[s].files.disposable}

\* the position of slot s in the cyclic order that starts after the largest
\* listed slot index
CyclicPosition(s) == (s + NumSlots - next_possibly_free_index(index)) % NumSlots

\* C15: a refresh returns InsufficientSlots exactly when more index paths need
\* a slot than slots are available; the error carries the number of paths
\* that are not placed; the slots that a refresh fills are taken in cyclic
\* order from the one after the largest listed slot index, each once.
C15_InsufficientSlotsExactly ==
    [][\A t \in Callers :
          Scans(t) =>
             LET c == Reconciled(last'.seen)
                 placed == {s \in Slots : files'[s].files # c.files[s].files}
                 insufficient == /\ thr'[t].pc = "done"
                                 /\ thr'[t].res.kind = "InsufficientSlots"
             IN /\ insufficient <=> Len(c.add) > Cardinality(Available(c.files))
                /\ insufficient
                      => thr'[t].res.needed = Len(c.add) - Cardinality(placed)
                /\ thr'[t].pc = "publish" =>
                      LET new == thr'[t].pend.slot_indices
                          first == Len(c.new) + 1
                      IN \A i \in first..Len(new), j \in first..Len(new) :
                            i < j => CyclicPosition(new[i]) < CyclicPosition(new[j])]_vars

\* the placement loop of lines 236-289 over the directory dir puts an index
\* into a slot that holds a bundle and places every queued path (computed as
\* a build without overflow checks does)
ReusesSlot(dir) ==
    LET c == place(index, Reconciled(dir),
                   maintain_stable_indices(num_handles_stable), FALSE)
    IN c.status = "ok" /\ c.needs_generation_change

\* C16: when the published generation is Generation::MAX and a refresh puts
\* an index into a slot that holds a bundle, the refresh returns
\* GenerationOverflow; it does not panic, no slot gets a generation other than
\* Generation::MAX and no SlotMapIndex is stored.
C16_OverflowIsAnError ==
    [][\A t \in Callers :
          (/\ Scans(t)
           /\ index.generation = GenerationMax
           /\ ReusesSlot(last'.seen))
          => /\ thr'[t].pc = "done"
             /\ thr'[t].res.kind = "GenerationOverflow"
             /\ index' = index
             /\ \A s \in Slots :
                   files'[s].generation \in {files[s].generation, GenerationMax}]_vars

\* C22: every index handle of a snapshot is of the index file that its slot
\* held when a SlotMapIndex of the generation of the snapshot's marker that
\* lists the slot was stored: no snapshot pairs the marker of one generation
\* with the bundle that a later refresh put into a reused slot.
C22_SnapshotNotTorn ==
    \A t \in Callers :
       (thr[t].pc = "done" /\ thr[t].res.kind \in {"Replace", "ReplaceStable"})
       => LET snapshot == thr[t].res.snapshot
          IN \A i \in 1..Len(snapshot.indices) :
                [generation |-> snapshot.marker.generation,
                 slot |-> snapshot.indices[i].id,
                 index_path |-> snapshot.indices[i].index_path,
                 mtime |-> snapshot.indices[i].mtime] \in published.listed

\* t holds the objects_directory mutex and found another SlotMapIndex than the
\* one it captured before it waited (lines 120-124)
Late(t) == thr[t].pc \in {"snap_index", "snap_slots"} /\ lock = t

\* C24: a refresher that finds, with the mutex taken, that the published
\* SlotMapIndex is not the one it captured scans nothing, leaves the
\* consolidation counter, the slots and the SlotMapIndex as they are, and
\* returns the snapshot of the published SlotMapIndex: as ReplaceStable if its
\* generation is the captured one, as Replace otherwise.
C24_LateRefresherOnlyCollects ==
    [][\A t \in Callers :
          /\ (thr[t].pc = "lock" /\ thr'[t].pc = "snap_index")
             => /\ num_disk_state_consolidation' = num_disk_state_consolidation
                /\ files' = files
                /\ index' = index
                /\ thr'[t].stable = (index.generation = thr[t].prev.generation)
          /\ Late(t) => marker_of(index') = marker_of(index)
          /\ (Late(t) /\ thr'[t].pc # thr[t].pc)
             => /\ num_disk_state_consolidation' = num_disk_state_consolidation
                /\ files' = files
                /\ index' = index
                /\ thr'[t].pc \in {"snap_slots", "done"}
          /\ (Late(t) /\ thr'[t].pc = "done")
             => /\ thr'[t].res.kind = IF thr[t].stable THEN "ReplaceStable"
                                      ELSE "Replace"
                /\ thr'[t].res.snapshot.marker = marker_of(index)]_vars

\* a refresher that waited while another one raised the generation collects
\* its snapshot under the mutex, to return it as Replace
C24_Witness ==
    \E t \in Callers :
       /\ Late(t)
       /\ thr[t].pc = "snap_slots"
       /\ ~thr[t].stable
       /\ thr[t].held.generation = 1
       /\ num_disk_state_consolidation > 0

\* C25: on an initialised store load_one_index with the marker of the
\* published SlotMapIndex (same generation, same state_id) and
\* RefreshMode::Never returns None, leaving the SlotMapIndex, the slots and the
\* consolidation counter as they are and the mutex untouched; with
\* RefreshMode::AfterAllIndicesLoaded it enters consolidate_with_disk_state.
C25_NeverReturnsNone ==
    [][\A t \in Callers :
          is_initialized(index)
          => /\ LoadOneIndex(t, "Never", marker_of(index))
                => /\ thr'[t].pc = "done"
                   /\ thr'[t].res = [kind |-> "None"]
                   /\ index' = index
                   /\ files' = files
                   /\ num_disk_state_consolidation' = num_disk_state_consolidation
                   /\ lock' = lock
             /\ LoadOneIndex(t, "AfterAllIndicesLoaded", marker_of(index))
                => thr'[t].pc = "capture"]_vars

\* a call got None from a store that a refresh has initialised and filled
C25_Witness ==
    /\ is_initialized(index)
    /\ num_disk_state_consolidation > 0
    /\ index.slot_indices # <<>>
    /\ \E t \in Callers :
          /\ thr[t].pc = "done"
          /\ thr[t].res.kind = "None"
          /\ thr[t].marker = marker_of(index)

\* C26: the decision of a refresh that stable indices must be maintained
\* (line 225) is true exactly when the counter of handles that require stable
\* indices is greater than 0.
C26_StableIffHandles ==
    [][\A t \in Callers :
          Scans(t) => (maintain_stable_indices(num_handles_stable)
                          <=> num_handles_stable > 0)]_vars

\* C23: a force_setup call that begins after a force_setup call has returned,
\* with a mode other than that of the first call, changes nothing: none of
\* its steps changes the signal-handler mode or registers a signal handler.
C23_OnlyFirstSetupHasEffect ==
    [][\A t \in Callers :
          (/\ tthr[t].call = "force_setup"
           /\ tthr[t].later
           /\ tthr[t].mode # first_setup.mode
           /\ tthr'[t] # tthr[t])
          => /\ SIGNAL_HANDLER_MODE' = SIGNAL_HANDLER_MODE
             /\ handlers' = handlers]_vars

\* C31: a refresh that reaches the assertion of lines 303-306 with a generation
\* other than that of the published SlotMapIndex has a slot index list other
\* than the published one: the assertion does not fire.
C31_GenerationChangeChangesList ==
    \A t \in Callers :
       thr[t].pc = "publish"
       => (thr[t].pend.generation # index.generation
           => thr[t].pend.slot_indices # index.slot_indices)

\* the step is the end of a refresh by t that got past line 300
Publishes(t) == thr[t].pc = "publish" /\ thr'[t].pc = "done"

\* C27: a refresh stores a SlotMapIndex exactly when the slot index list, the
\* loose dbs or the generation it computed differ from those of the published
\* one; the stored SlotMapIndex has the cursor next_index_to_load and the
\* counter of loaded indices of the one before exactly when the slot index
\* list is the same, else the cursor is reset.
C27_StoresWhenChanged ==
    [][\A t \in Callers :
          Publishes(t) =>
             LET pend == thr[t].pend
                 same_list == pend.slot_indices = index.slot_indices
             IN /\ Stores <=> \/ ~same_list
                              \/ pend.loose_dbs # index.loose_dbs
                              \/ pend.generation # index.generation
                /\ Stores =>
                      IF same_list
                      THEN /\ index'.next_index_to_load = index.next_index_to_load
                           /\ index'.loaded_indices = index.loaded_indices
                      ELSE index'.next_index_to_load = 0]_vars

\* C28: when a refresh stores a new bundle into a slot, the generation tag of
\* the slot is the generation the operation was given: the generation after
\* the published one where set_slot_to_index replaces a bundle (lines
\* 358-359), the published one where assure_slot_matches_index fills an empty
\* slot or puts a bundle back.
C28_SlotWriteStoresGeneration ==
    [][\A t \in Callers, s \in Slots :
          (Scans(t) /\ files'[s] # files[s])
          => files'[s].generation =
                (IF files[s].files # NoValue
                    /\ files'[s].files.index_path # files[s].files.index_path
                 THEN index.generation + 1
                 ELSE index.generation)]_vars

\* the bundle of slot s after the step is one the slot held before it
KeepsBundle(s) ==
    files'[s].files # NoValue
    => /\ files[s].files # NoValue
       /\ files'[s].files.index_path = files[s].files.index_path
       /\ files'[s].files.mtime = files[s].files.mtime

\* C29: a refresh that fails with InsufficientSlots or GenerationOverflow
\* leaves the published SlotMapIndex unchanged and no slot with a bundle that
\* the slot did not hold before the refresh.
C29_FailedRefreshLeavesStore ==
    [][\A t \in Callers :
          (/\ Scans(t)
           /\ thr'[t].pc = "done"
           /\ thr'[t].res.kind \in {"InsufficientSlots", "GenerationOverflow"})
          => /\ index' = index
             /\ \A s \in Slots : KeepsBundle(s)]_vars

\* C30: in every sequence of refreshes, also after a refresh that failed with
\* InsufficientSlots, no refresh panics on the assertion of lines 347-351: a
\* slot looked at for a new index path never holds a bundle of that path.
C30_PlacementAssertionHolds ==
    [][\A t \in Callers :
          Scans(t) => ~(/\ thr'[t].pc = "done"
                        /\ thr'[t].res.kind = "panic"
                        /\ thr'[t].res.line = 347)]_vars

\* t is in the scanning and publishing part of consolidate_with_disk_state
Refreshing(t) == thr[t].pc \in {"scan", "publish"}

\* the step fills or replaces the bundle of a slot or writes its generation
\* (a bundle that only becomes disposable is not written by a refresher)
WritesSlot ==
    \E s \in Slots :
       /\ files'[s] # files[s]
       /\ \/ files[s].files = NoValue
          \/ files'[s] # [files[s] EXCEPT !.files = trash(files[s].files)]

\* C19: a thread that is in the scanning and publishing part holds the
\* objects_directory mutex, so at most one thread is there; every write of a
\* slot by a refresh and every store of a SlotMapIndex is a step of the thread
\* that holds the mutex.
C19_OneRefresherAtATime ==
    [][/\ \A t \in Callers : Refreshing(t)' => lock' = t
       /\ (WritesSlot \/ Stores) => (lock \in Callers /\ Refreshing(lock))]_vars

\* a thread scans while the other one, which saw the same SlotMapIndex, waits
\* for the mutex
C19_Witness ==
    \E t \in Callers, u \in Callers :
       /\ thr[t].pc = "scan"
       /\ lock = t
       /\ thr[u].pc = "lock"
       /\ thr[u].prev.current

\* t collects a snapshot without having taken the objects_directory mutex:
\* it came by lines 90-91 or 102-103 of load_one_index
Reading(t) == thr[t].pc \in {"snap_index", "snap_slots"} /\ lock # t

\* C20: no step of a thread that collects a snapshot for a marker that
\* differs from the published SlotMapIndex takes or waits for a mutex, and
\* the thread gets its outcome even if a refresher holds its mutexes for ever.
C20_ReadersAreNotBlocked ==
    /\ [][\A t \in Callers :
            (Reading(t) \/ Reading(t)') /\ thr'[t].pc # thr[t].pc
            => lock' = lock]_vars
    /\ \A t \in Callers : Reading(t) ~> (thr[t].pc = "done")

\* a thread is about to read the slots while the other one holds the mutex
\* in the middle of a refresh
C20_Witness ==
    \E t \in Callers, u \in Callers :
       /\ thr[t].pc = "snap_slots"
       /\ lock = u
       /\ u # t
       /\ thr[u].pc = "publish"

====
